---------------------------- MODULE Spec2Model ----------------------------
(***************************************************************************)
(* Invoice lifecycle of the Midtrans payment gateway service:              *)
(*   - the invoice store (MikroOrmInvoiceRepository / legacy service),     *)
(*   - the webhook reconciliation handler POST /midtrans/notification,     *)
(*   - the payment-link generation workflow (generatePaymentLink) and its  *)
(*     two routes.                                                         *)
(* Time is counted in units of fifteen minutes.                            *)
(***************************************************************************)
EXTENDS Integers, Sequences, FiniteSets, TLC

(***************************************************************************)
(* Bounds of the model                                                     *)
(***************************************************************************)
MaxInvoices == 2
MaxTime == 2
HookMaxTime == 1
NumHandlers == 2
NumGens == 2
MaxCalls == 4
NumCallers == 2

(***************************************************************************)
(* Program constants                                                       *)
(***************************************************************************)
\* maxAge = 30 * 60 * 1000 ms, in units of fifteen minutes
MaxAge == 2
\* paymentAttemptCount >= 3 -> MAX_PAYMENT_ATTEMPTS_REACHED
MaxAttempts == 3

\* null for strings; None / Some(x) for every other nullable value
Null == "null"
None == <<>>
Some(x) == <<x>>
Val(o) == o[1]
NaN == -1

Handlers == 1..NumHandlers
Gens == 1..NumGens
Callers == 1..NumCallers

OrderIds == {"A", "B"}
\* the orders of the link-generation runs
GenOrderIds == {"A"}
Amounts == {100}
TxIds == {"t1"}
VendorStatuses == {"settlement", "capture", "pending", "expire", "cancel",
                   "deny", "failure"}
\* the vendor statuses the modelled gateway sends
SentStatuses == {"settlement", "capture", "pending", "expire", "deny"}

InvoiceStatus == {"PENDING", "PAID", "FAILED", "EXPIRED"}
FinalStatuses == {"PAID", "FAILED", "EXPIRED"}

(***************************************************************************)
(* Pure functions                                                          *)
(***************************************************************************)
\* Number(notification.gross_amount)
NumberOf(g) ==
  CASE g = "100.00" -> 100
    [] g = "100" -> 100
    [] g = "90.00" -> 90
    [] g = "" -> 0
    [] OTHER -> NaN

MapAllToPaid(ts) == "PAID"

mapMidtransStatusToInvoice(ts) ==
  CASE ts \in {"settlement", "capture"} -> "PAID"
    [] ts = "pending" -> "PENDING"
    [] ts \in {"expire", "cancel"} -> "EXPIRED"
    [] ts \in {"deny", "failure"} -> "FAILED"
    [] OTHER -> Null

isValidStatusTransition(currentStatus, newStatus) ==
  IF currentStatus \in FinalStatuses THEN FALSE
  ELSE currentStatus = "PENDING"

validateWebhookRequest(n) ==
  IF n.order_id = "" \/ n.transaction_status = "" THEN "order_id dan transaction_status diperlukan"
  ELSE IF n.transaction_id = "" THEN "transaction_id diperlukan"
  ELSE IF n.gross_amount = "" THEN "gross_amount diperlukan"
  ELSE Null

\* verifySignature: the SHA-512 comparison is carried by the notification as
\* the outcome of comparing the presented signature with the computed one.
verifySignature(n, production) ==
  IF ~production THEN TRUE ELSE n.signature = "valid"

RulesIgnoreStatus(invoice, n) ==
  IF NumberOf(n.gross_amount) # invoice.amount THEN "Ketidakcocokan jumlah"
  ELSE Null

RulesIgnoreAmount(invoice, n) ==
  IF invoice.status = "PAID" THEN "Invoice sudah dibayar"
  ELSE IF invoice.status = "EXPIRED" THEN "Invoice kedaluwarsa"
  ELSE Null

\* the business rules with rule 3 narrowed to PENDING: a FAILED invoice can
\* not receive a payment
RulesRejectFailed(invoice, n) ==
  IF NumberOf(n.gross_amount) # invoice.amount THEN "Ketidakcocokan jumlah"
  ELSE IF invoice.status = "PAID" THEN "Invoice sudah dibayar"
  ELSE IF invoice.status = "EXPIRED" THEN "Invoice kedaluwarsa"
  ELSE IF invoice.status # "PENDING" THEN "Status invoice tidak valid untuk pembayaran"
  ELSE Null

validatePaymentRules(invoice, n) ==
  IF NumberOf(n.gross_amount) # invoice.amount THEN "Ketidakcocokan jumlah"
  ELSE IF invoice.status = "PAID" THEN "Invoice sudah dibayar"
  ELSE IF invoice.status = "EXPIRED" THEN "Invoice kedaluwarsa"
  ELSE IF invoice.status # "PENDING" /\ invoice.status # "FAILED" THEN "Status invoice tidak valid"
  ELSE Null

notificationId(n) == <<n.order_id, n.transaction_id, n.transaction_status>>

(***************************************************************************)
(* The invoice store: a sequence of rows, the id of a row is its index.    *)
(***************************************************************************)
NewInvoice(orderId, amount) ==
  [orderId |-> orderId, amount |-> amount, status |-> "PENDING",
   paymentType |-> Null, gatewayResponse |-> None, paidAt |-> None,
   paymentLink |-> None, paymentLinkCreatedAt |-> None,
   paymentAttemptCount |-> 0, deletedAt |-> None]

Ids(store) == 1..Len(store)

Live(store) == {i \in Ids(store) : store[i].deletedAt = None}

\* findById: { id, deletedAt: null }
findById(store, id) ==
  IF id \in Live(store) THEN id ELSE 0

\* findByOrderId: { orderId, deletedAt: null }
findByOrderId(store, orderId) ==
  IF \E i \in Live(store) : store[i].orderId = orderId
  THEN CHOOSE i \in Live(store) : store[i].orderId = orderId
  ELSE 0

NoUniqueIndex(store, orderId) == TRUE

UniqueAmongLiveOnly(store, orderId) ==
  \A i \in Live(store) : store[i].orderId # orderId

\* the unique index on order_id covers every row, soft-deleted ones included
OrderIdUnique(store, orderId) ==
  \A i \in Ids(store) : store[i].orderId # orderId

\* create: INVOICE_ALREADY_EXISTS when a live row holds the orderId, a
\* unique-constraint error from persistAndFlush when a deleted row holds it
createResult(store, orderId) ==
  IF findByOrderId(store, orderId) # 0 THEN "INVOICE_ALREADY_EXISTS"
  ELSE IF ~OrderIdUnique(store, orderId) THEN "UNIQUE_CONSTRAINT"
  ELSE "CREATED"

create(store, orderId, amount) ==
  IF createResult(store, orderId) = "CREATED"
  THEN Append(store, NewInvoice(orderId, amount))
  ELSE store

\* softDelete: throws 'Invoice not found' for an absent or deleted row
softDelete(store, id, t) ==
  IF findById(store, id) = 0 THEN store
  ELSE [store EXCEPT ![id].deletedAt = Some(t)]

CasMatchAnyStatus(store, orderId) ==
  {i \in Ids(store) : store[i].orderId = orderId /\ store[i].deletedAt = None}

\* rows matched by nativeUpdate's where { orderId, status: PENDING, deletedAt: null }
CasMatch(store, orderId) ==
  {i \in Ids(store) : /\ store[i].orderId = orderId
                      /\ store[i].status = "PENDING"
                      /\ store[i].deletedAt = None}

CasStampsAlways(store, orderId, newStatus, paymentData, t) ==
  [i \in Ids(store) |->
     IF i \in CasMatch(store, orderId)
     THEN [store[i] EXCEPT
             !.status = newStatus,
             !.paymentType = IF paymentData = None THEN @ ELSE Val(paymentData).payment_type,
             !.gatewayResponse = IF paymentData = None THEN @ ELSE paymentData,
             !.paidAt = IF paymentData # None THEN Some(t) ELSE @]
     ELSE store[i]]

\* the conditional update that sets the status and leaves the payload out
CasDropsPayload(store, orderId, newStatus, paymentData, t) ==
  [i \in Ids(store) |->
     IF i \in CasMatch(store, orderId)
     THEN [store[i] EXCEPT
             !.status = newStatus,
             !.paidAt = IF paymentData # None /\ newStatus = "PAID" THEN Some(t) ELSE @]
     ELSE store[i]]

\* the conditional update that also withdraws the payment link of the row
CasResetsLink(store, orderId, newStatus, paymentData, t) ==
  [i \in Ids(store) |->
     IF i \in CasMatch(store, orderId)
     THEN [store[i] EXCEPT
             !.status = newStatus,
             !.paymentType = IF paymentData = None THEN @ ELSE Val(paymentData).payment_type,
             !.gatewayResponse = IF paymentData = None THEN @ ELSE paymentData,
             !.paidAt = IF paymentData # None /\ newStatus = "PAID" THEN Some(t) ELSE @,
             !.paymentLinkCreatedAt = None]
     ELSE store[i]]

\* updateStatusAtomicFromPending: one UPDATE ... WHERE statement
casStore(store, orderId, newStatus, paymentData, t) ==
  [i \in Ids(store) |->
     IF i \in CasMatch(store, orderId)
     THEN [store[i] EXCEPT
             !.status = newStatus,
             !.paymentType = IF paymentData = None THEN @ ELSE Val(paymentData).payment_type,
             !.gatewayResponse = IF paymentData = None THEN @ ELSE paymentData,
             !.paidAt = IF paymentData # None /\ newStatus = "PAID" THEN Some(t) ELSE @]
     ELSE store[i]]

CasAlwaysSuccess(store, orderId) == "SUCCESS"

\* affectedRows > 0 ? 'SUCCESS' : 'NOOP'
casResult(store, orderId) ==
  IF CasMatch(store, orderId) # {} THEN "SUCCESS" ELSE "NOOP"


\* the assignments of updateStatus / updateStatusByOrderId after the row is found
assignStatus(invoice, status, paymentData, t) ==
  [invoice EXCEPT
     !.status = status,
     !.paymentType = IF paymentData = None THEN @ ELSE Val(paymentData).paymentType,
     !.gatewayResponse = IF paymentData = None THEN @ ELSE Val(paymentData).gatewayResponse,
     !.paidAt = IF paymentData # None /\ status = "PAID" THEN Some(t) ELSE @]

\* updateStatus: what the call throws, "OK" when it returns the invoice
updateStatusResult(store, id, status) ==
  IF status \notin InvoiceStatus THEN "Invalid Status"
  ELSE IF findById(store, id) = 0 THEN "Invoice not found"
  ELSE "OK"

updateStatus(store, id, status, paymentData, t) ==
  IF updateStatusResult(store, id, status) # "OK" THEN store
  ELSE [store EXCEPT ![id] = assignStatus(@, status, paymentData, t)]

updateStatusByOrderIdResult(store, orderId, status) ==
  IF status \notin InvoiceStatus THEN "Invalid Status"
  ELSE IF findByOrderId(store, orderId) = 0 THEN "Invoice with orderId not found"
  ELSE "OK"

updateStatusByOrderId(store, orderId, status, paymentData, t) ==
  IF updateStatusByOrderIdResult(store, orderId, status) # "OK" THEN store
  ELSE [store EXCEPT ![findByOrderId(store, orderId)] =
          assignStatus(@, status, paymentData, t)]

\* the primary key as the string the entity carries (id: string)
IdString(i) ==
  CASE i = 1 -> "1"
    [] i = 2 -> "2"
    [] i = 3 -> "3"
    [] OTHER -> "4"

\* findWithLock(id): { id, deletedAt: null } with a write lock; the argument
\* is a string, a string that is no key of a live row finds nothing
findWithLock(store, id) ==
  IF \E i \in Live(store) : IdString(i) = id
  THEN CHOOSE i \in Live(store) : IdString(i) = id
  ELSE 0

\* the switch inside handleMidtransCallback; its default branch throws
callbackStatus(transactionStatus) ==
  CASE transactionStatus = "settlement" -> "PAID"
    [] transactionStatus = "capture" -> "PAID"
    [] transactionStatus = "pending" -> "PENDING"
    [] transactionStatus = "expire" -> "EXPIRED"
    [] transactionStatus = "cancel" -> "EXPIRED"
    [] transactionStatus = "deny" -> "FAILED"
    [] transactionStatus = "failure" -> "FAILED"
    [] OTHER -> Null

\* handleMidtransCallback after the lookup: found is the row the lookup
\* returned, 0 for none
callbackResult(found, orderId, transactionStatus) ==
  IF orderId = "" \/ transactionStatus = "" THEN "INVALID_CALLBACK_DATA"
  ELSE IF found = 0 THEN "INVOICE_NOT_FOUND"
  ELSE IF callbackStatus(transactionStatus) = Null THEN "INVALID_TRANSACTION_STATUS"
  ELSE "OK"

callbackStore(store, found, orderId, transactionStatus, rawResponse, t) ==
  IF callbackResult(found, orderId, transactionStatus) # "OK" THEN store
  ELSE IF store[found].status = callbackStatus(transactionStatus) THEN store
  ELSE [store EXCEPT
          ![found].status = callbackStatus(transactionStatus),
          ![found].gatewayResponse = Some(rawResponse),
          ![found].paidAt = IF callbackStatus(transactionStatus) = "PAID"
                            THEN Some(t) ELSE @]

\* invoice.service.legacy.ts: em.findOne(Invoice, { orderId, deletedAt: null })
legacyFound(store, orderId) == findByOrderId(store, orderId)

\* InvoiceService: txRepo.findWithLock(orderId)
refactoredFound(store, orderId) == findWithLock(store, orderId)


(***************************************************************************)
(* State                                                                   *)
(***************************************************************************)
VARIABLES
  invoices,                \* the invoices table
  now,                     \* Date.now()
  isProduction,            \* midtransEnv.IS_PRODUCTION
  processedNotifications,  \* the Set of midtrans.route.ts
  hook,                    \* the in-flight POST /notification handlers
  gen,                     \* the in-flight generatePaymentLink calls
  gatewayCalls,            \* per invoice id, the attempt numbers sent to the gateway
  callsMade,               \* per invoice id, the number of generatePaymentLink calls begun
  processingPaymentLinks,  \* the Set of invoice.route.ts
  plain,                   \* the invoices table of the system without the short-circuit
  call                     \* the in-flight calls of the service methods

vars == <<invoices, now, isProduction, processedNotifications, hook, gen,
          gatewayCalls, callsMade, processingPaymentLinks, plain, call>>

envVars == <<isProduction, call>>

hookVars == <<processedNotifications, hook>>
genVars == <<gen, gatewayCalls, callsMade, processingPaymentLinks>>

\* the notifications the gateway (or anybody else) may post: the well-formed
\* ones, and one well-formed notification with a single field spoiled
BaseNotification ==
  [order_id |-> "A", transaction_id |-> "t1", transaction_status |-> "settlement",
   gross_amount |-> "100.00", payment_type |-> "qris", signature |-> "valid"]

WellFormed ==
  [order_id : OrderIds, transaction_id : TxIds, transaction_status : SentStatuses,
   gross_amount : {"100.00", "90.00"}, payment_type : {"qris"}, signature : {"valid"}]

Spoiled ==
  {[BaseNotification EXCEPT !.order_id = ""],
   [BaseNotification EXCEPT !.transaction_id = ""],
   [BaseNotification EXCEPT !.transaction_status = ""],
   [BaseNotification EXCEPT !.transaction_status = "refund"],
   [BaseNotification EXCEPT !.gross_amount = ""],
   [BaseNotification EXCEPT !.gross_amount = "abc"],
   [BaseNotification EXCEPT !.signature = "forged"]}

Notifications == WellFormed \cup Spoiled

IdleHook == [pc |-> "idle", n |-> None, snap |-> Null, newStatus |-> Null,
             resp |-> Null, replay |-> FALSE, overlap |-> FALSE, sawPending |-> FALSE,
             direct |-> FALSE, audit |-> Null]

IdleGen == [pc |-> "idle", route |-> Null, id |-> 0, orderId |-> Null, count |-> 0,
            stamp |-> None,
            url |-> None, result |-> Null, error |-> Null]

\* a call of a service method: the method, its arguments and what it returned
IdleCall == [pc |-> "idle", op |-> Null, orderId |-> Null, amount |-> 0, args |-> <<>>,
             result |-> Null, ok |-> FALSE]

Init ==
  /\ invoices = <<>>
  /\ now = 0
  /\ isProduction = FALSE
  /\ processedNotifications = {}
  /\ hook = [h \in Handlers |-> IdleHook]
  /\ gen = [g \in Gens |-> IdleGen]
  /\ gatewayCalls = [i \in 1..MaxInvoices |-> <<>>]
  /\ callsMade = [i \in 1..MaxInvoices |-> 0]
  /\ processingPaymentLinks = {}
  /\ plain = <<>>
  /\ call = [k \in Callers |-> IdleCall]

(***************************************************************************)
(* Store operations as requests                                            *)
(***************************************************************************)
HookTick ==
  /\ now < HookMaxTime
  /\ now' = now + 1
  /\ UNCHANGED <<invoices, envVars, hookVars, genVars, plain>>

Tick ==
  /\ now < MaxTime
  /\ now' = now + 1
  /\ UNCHANGED <<invoices, envVars, hookVars, genVars, plain>>

CreateInvoice(orderId, amount) ==
  /\ Len(invoices) < MaxInvoices
  /\ invoices' = create(invoices, orderId, amount)
  /\ UNCHANGED <<now, envVars, hookVars, genVars, plain>>

SoftDelete(id) ==
  /\ id \in Ids(invoices)
  /\ invoices' = softDelete(invoices, id, now)
  /\ UNCHANGED <<now, envVars, hookVars, genVars, plain>>

\* the process is started again between two requests: the module-level Sets
\* are created anew, the database keeps its rows
Restart ==
  /\ \A h \in Handlers : hook[h].pc \in {"idle", "done"}
  /\ \A g \in Gens : gen[g].pc \in {"idle", "done"}
  /\ processedNotifications # {}
  /\ processedNotifications' = {}
  /\ processingPaymentLinks' = {}
  /\ UNCHANGED <<invoices, now, envVars, hook, gen, gatewayCalls, callsMade, plain>>

(***************************************************************************)
(* POST /midtrans/notification                                             *)
(***************************************************************************)
CacheFirst(n, cache, production, shortCircuit) ==
  IF shortCircuit /\ notificationId(n) \in cache THEN "DUPLICATE_200"
  ELSE IF validateWebhookRequest(n) # Null THEN "VALIDATION_400"
  ELSE IF production /\ ~verifySignature(n, production) THEN "UNAUTHORIZED_401"
  ELSE Null

\* lines 40-61: validation, signature, idempotency short-circuit
ReceiveResp(n, cache, production, shortCircuit) ==
  IF validateWebhookRequest(n) # Null THEN "VALIDATION_400"
  ELSE IF production /\ ~verifySignature(n, production) THEN "UNAUTHORIZED_401"
  ELSE IF shortCircuit /\ notificationId(n) \in cache THEN "DUPLICATE_200"
  ELSE Null

\* the lookup stage without the status idempotency check of lines 92-97
LookupNoStatusCheck(store, n) ==
  LET id == findByOrderId(store, n.order_id)
      newStatus == mapMidtransStatusToInvoice(n.transaction_status)
  IN IF id = 0 THEN "NOT_FOUND_404"
     ELSE IF validatePaymentRules(store[id], n) # Null THEN "BUSINESS_RULE_400"
     ELSE IF newStatus = Null THEN "UNKNOWN_STATUS_500"
     ELSE IF ~isValidStatusTransition(store[id].status, newStatus) THEN "TRANSITION_NOT_ALLOWED_200"
     ELSE Null

\* lines 63-97: lookup, business rules, mapping, FSM guard, status idempotency
LookupResp(store, n) ==
  LET id == findByOrderId(store, n.order_id)
      newStatus == mapMidtransStatusToInvoice(n.transaction_status)
  IN IF id = 0 THEN "NOT_FOUND_404"
     ELSE IF validatePaymentRules(store[id], n) # Null THEN "BUSINESS_RULE_400"
     ELSE IF newStatus = Null THEN "UNKNOWN_STATUS_500"
     ELSE IF ~isValidStatusTransition(store[id].status, newStatus) THEN "TRANSITION_NOT_ALLOWED_200"
     ELSE IF store[id].status = newStatus THEN "STATUS_ALREADY_SET_200"
     ELSE Null

SuccessResps == {"SUCCESS_200"}
NoopResps == {"DUPLICATE_200", "TRANSITION_NOT_ALLOWED_200", "STATUS_ALREADY_SET_200",
              "ATOMIC_NOOP_200"}
ErrorResps == {"VALIDATION_400", "UNAUTHORIZED_401", "NOT_FOUND_404",
               "BUSINESS_RULE_400", "UNKNOWN_STATUS_500"}

\* an identical notification has already been answered SUCCESS
AnsweredSuccess(n) ==
  \E k \in Handlers : hook[k].pc = "done" /\ hook[k].n = Some(n) /\ hook[k].resp = "SUCCESS_200"

NoneAnswered == \A k \in Handlers : hook[k].pc # "done"

\* the live invoice of the order is PENDING
LivePending(orderId) ==
  /\ findByOrderId(invoices, orderId) # 0
  /\ invoices[findByOrderId(invoices, orderId)].status = "PENDING"

HookReceive(h, n) ==
  /\ hook[h].pc = "idle"
  /\ LET r == ReceiveResp(n, processedNotifications, isProduction, TRUE)
     IN hook' = [hook EXCEPT ![h] =
                   [@ EXCEPT !.n = Some(n), !.replay = AnsweredSuccess(n),
                             !.overlap = NoneAnswered,
                             !.sawPending = LivePending(n.order_id),
                             !.pc = IF r = Null THEN "lookup" ELSE "done",
                             !.resp = r]]
  /\ UNCHANGED <<invoices, now, envVars, processedNotifications, genVars, plain>>

LookupRecordsKey(h) ==
  /\ hook[h].pc = "lookup"
  /\ LET n == Val(hook[h].n)
         r == LookupResp(invoices, n)
         id == findByOrderId(invoices, n.order_id)
     IN /\ hook' = [hook EXCEPT ![h] =
                      [@ EXCEPT !.pc = IF r = Null THEN "cas" ELSE "done",
                                !.resp = r,
                                !.snap = IF id = 0 THEN Null ELSE invoices[id].status,
                                !.newStatus = IF r = Null
                                              THEN mapMidtransStatusToInvoice(n.transaction_status)
                                              ELSE Null]]
        /\ processedNotifications' = processedNotifications \cup {notificationId(n)}
  /\ UNCHANGED <<invoices, now, envVars, genVars, plain>>

HookLookup(h) ==
  /\ hook[h].pc = "lookup"
  /\ LET n == Val(hook[h].n)
         r == LookupResp(invoices, n)
         id == findByOrderId(invoices, n.order_id)
     IN hook' = [hook EXCEPT ![h] =
                   [@ EXCEPT !.pc = IF r = Null THEN "cas" ELSE "done",
                             !.resp = r,
                             !.snap = IF id = 0 THEN Null ELSE invoices[id].status,
                             !.newStatus = IF r = Null
                                           THEN mapMidtransStatusToInvoice(n.transaction_status)
                                           ELSE Null]]
  /\ UNCHANGED <<invoices, now, envVars, processedNotifications, genVars, plain>>

\* the conditional update whose outcome gates nothing: the success audit event
\* and the recording of the key follow a NOOP as well
CasGatesNothing(h) ==
  /\ hook[h].pc = "cas"
  /\ ~hook[h].direct
  /\ LET n == Val(hook[h].n)
     IN /\ invoices' = casStore(invoices, n.order_id, hook[h].newStatus, Some(n), now)
        /\ hook' = [hook EXCEPT ![h] =
                      [@ EXCEPT !.pc = "finish", !.resp = Null, !.audit = "ATOMIC_SUCCESS"]]
  /\ UNCHANGED <<now, envVars, processedNotifications, genVars, plain>>

\* lines 99-131: the conditional update; NOOP is logged as ATOMIC_NOOP and
\* answered at once, SUCCESS is logged as ATOMIC_SUCCESS
HookCas(h) ==
  /\ hook[h].pc = "cas"
  /\ ~hook[h].direct
  /\ LET n == Val(hook[h].n)
         res == casResult(invoices, n.order_id)
     IN /\ invoices' = casStore(invoices, n.order_id, hook[h].newStatus, Some(n), now)
        /\ hook' = [hook EXCEPT ![h] =
                      [@ EXCEPT !.pc = IF res = "SUCCESS" THEN "finish" ELSE "done",
                                !.resp = IF res = "SUCCESS" THEN Null ELSE "ATOMIC_NOOP_200",
                                !.audit = IF res = "SUCCESS" THEN "ATOMIC_SUCCESS"
                                          ELSE "ATOMIC_NOOP"]]
  /\ UNCHANGED <<now, envVars, processedNotifications, genVars, plain>>

\* line 136: processedNotifications.add(notificationId)
AddProcessed(cache, key) == cache \cup {key}

\* lines 133-144: the key is recorded and the delivery answered
HookFinish(h) ==
  /\ hook[h].pc = "finish"
  /\ processedNotifications' = AddProcessed(processedNotifications, notificationId(Val(hook[h].n)))
  /\ hook' = [hook EXCEPT ![h] = [@ EXCEPT !.pc = "done", !.resp = "SUCCESS_200"]]
  /\ UNCHANGED <<invoices, now, envVars, genVars, plain>>

HookNext ==
  \/ HookTick
  \/ \E o \in OrderIds, a \in Amounts : CreateInvoice(o, a)
  \/ \E id \in 1..MaxInvoices : SoftDelete(id)
  \/ Restart
  \/ \E h \in Handlers, n \in Notifications : HookReceive(h, n)
  \/ \E h \in Handlers : HookLookup(h)
  \/ \E h \in Handlers : HookCas(h)
  \/ \E h \in Handlers : HookFinish(h)

SpecHook == Init /\ [][HookNext]_vars


(***************************************************************************)
(* POST /midtrans/notification in a sandbox or a production deployment     *)
(***************************************************************************)
InitAuth ==
  /\ invoices = <<>>
  /\ now = 0
  /\ isProduction \in BOOLEAN
  /\ processedNotifications = {}
  /\ hook = [h \in Handlers |-> IdleHook]
  /\ gen = [g \in Gens |-> IdleGen]
  /\ gatewayCalls = [i \in 1..MaxInvoices |-> <<>>]
  /\ callsMade = [i \in 1..MaxInvoices |-> 0]
  /\ processingPaymentLinks = {}
  /\ plain = <<>>
  /\ call = [k \in Callers |-> IdleCall]

AuthNext ==
  \/ HookTick
  \/ \E o \in GenOrderIds, a \in Amounts : CreateInvoice(o, a)
  \/ \E h \in Handlers, n \in Notifications : HookReceive(h, n)
  \/ \E h \in Handlers : HookLookup(h)
  \/ \E h \in Handlers : HookCas(h)
  \/ \E h \in Handlers : HookFinish(h)

SpecAuth == InitAuth /\ [][AuthNext]_vars

(***************************************************************************)
(* updateStatusAtomicFromPending called directly on the service            *)
(***************************************************************************)
CasInvoke(h, newStatus, paymentData) ==
  /\ hook[h].pc = "idle"
  /\ hook' = [hook EXCEPT ![h] =
                [@ EXCEPT !.pc = "cas", !.direct = TRUE, !.n = Some(paymentData),
                          !.newStatus = newStatus,
                          !.sawPending = LivePending(paymentData.order_id)]]
  /\ UNCHANGED <<invoices, now, envVars, processedNotifications, genVars, plain>>

CasExec(h) ==
  /\ hook[h].pc = "cas"
  /\ hook[h].direct
  /\ LET n == Val(hook[h].n)
     IN /\ invoices' = casStore(invoices, n.order_id, hook[h].newStatus, Some(n), now)
        /\ hook' = [hook EXCEPT ![h] =
                      [@ EXCEPT !.pc = "done", !.resp = casResult(invoices, n.order_id)]]
  /\ UNCHANGED <<now, envVars, processedNotifications, genVars, plain>>

CasNext ==
  \/ HookTick
  \/ \E o \in OrderIds, a \in Amounts : CreateInvoice(o, a)
  \/ \E h \in Handlers, st \in InvoiceStatus, pd \in WellFormed : CasInvoke(h, st, pd)
  \/ \E h \in Handlers : CasExec(h)

SpecCas == Init /\ [][CasNext]_vars

(***************************************************************************)
(* generatePaymentLink and its two routes                                  *)
(***************************************************************************)
ActiveLinkInclusive(inv, t) ==
  /\ inv.paymentLink # None
  /\ inv.paymentLinkCreatedAt # None
  /\ t - Val(inv.paymentLinkCreatedAt) <= MaxAge

\* paymentLink && paymentLinkCreatedAt && linkAge < maxAge
ActiveLink(inv, t) ==
  /\ inv.paymentLink # None
  /\ inv.paymentLinkCreatedAt # None
  /\ t - Val(inv.paymentLinkCreatedAt) < MaxAge

BudgetExceeded(inv) == inv.paymentAttemptCount > MaxAttempts

\* paymentAttemptCount >= 3
BudgetExhausted(inv) == inv.paymentAttemptCount >= MaxAttempts

\* the eligibility checks of Phase 1, in the order of the code
Phase1Error(store, id, t) ==
  IF findById(store, id) = 0 THEN "Invoice Not Found"
  ELSE IF store[id].status = "PAID" THEN "INVOICE_ALREADY_PAID"
  ELSE IF store[id].status = "EXPIRED" THEN "INVOICE_EXPIRED"
  ELSE IF BudgetExhausted(store[id]) THEN "MAX_PAYMENT_ATTEMPTS_REACHED"
  ELSE IF ActiveLink(store[id], t) THEN "ACTIVE_PAYMENT_LINK_EXISTS"
  ELSE Null

\* the checks POST /v1/payment-links makes before it calls the service
V1Resp(store, orderId, t) ==
  LET id == findByOrderId(store, orderId)
  IN IF id = 0 THEN "NOT_FOUND_404"
     ELSE IF store[id].status = "PAID" THEN "ALREADY_PAID_409"
     ELSE IF store[id].status = "EXPIRED" THEN "EXPIRED_409"
     ELSE IF BudgetExhausted(store[id]) THEN "MAX_ATTEMPTS_409"
     ELSE IF ActiveLink(store[id], t) THEN "LINK_200"
     ELSE Null

\* the request is over: the answer is kept, the key of /v1/payment-links released
Ended(g, result, error, url) ==
  [gen[g] EXCEPT !.pc = "done", !.result = result, !.error = error, !.url = url,
                 !.count = 0, !.stamp = None]

RECURSIVE SumUpTo(_, _)
SumUpTo(f, k) == IF k = 0 THEN 0 ELSE f[k] + SumUpTo(f, k - 1)

\* the number of generatePaymentLink calls begun so far
TotalCalls == SumUpTo(callsMade, MaxInvoices)

Release(g) ==
  IF gen[g].route = "v1" THEN processingPaymentLinks \ {gen[g].orderId}
  ELSE processingPaymentLinks

\* POST /invoices/:id/generate-payment-link
SvcCall(g, id) ==
  /\ gen[g].pc \in {"idle", "done"}
  /\ TotalCalls < MaxCalls
  /\ callsMade' = [callsMade EXCEPT ![id] = @ + 1]
  /\ gen' = [gen EXCEPT ![g] = [IdleGen EXCEPT !.pc = "p1read", !.route = "svc", !.id = id]]
  /\ UNCHANGED <<invoices, now, envVars, hookVars, gatewayCalls,
                 processingPaymentLinks, plain>>

\* the 429 answer given inside the try block: its finally deletes the key
V1CallBusyReleases(g, orderId) ==
  /\ gen[g].pc \in {"idle", "done"}
  /\ IF orderId \in processingPaymentLinks
     THEN /\ gen' = [gen EXCEPT ![g] =
                       [IdleGen EXCEPT !.pc = "done", !.route = "busy", !.orderId = orderId,
                                       !.result = "IN_PROGRESS_429"]]
          /\ processingPaymentLinks' = processingPaymentLinks \ {orderId}
     ELSE /\ gen' = [gen EXCEPT ![g] =
                       [IdleGen EXCEPT !.pc = "v1read", !.route = "v1", !.orderId = orderId]]
          /\ processingPaymentLinks' = processingPaymentLinks \cup {orderId}
  /\ UNCHANGED <<invoices, now, envVars, hookVars, gatewayCalls, callsMade, plain>>

\* POST /v1/payment-links: the in-process key
V1Call(g, orderId) ==
  /\ gen[g].pc \in {"idle", "done"}
  /\ IF orderId \in processingPaymentLinks
     THEN /\ gen' = [gen EXCEPT ![g] =
                       [IdleGen EXCEPT !.pc = "done", !.route = "busy", !.orderId = orderId,
                                       !.result = "IN_PROGRESS_429"]]
          /\ UNCHANGED processingPaymentLinks
     ELSE /\ gen' = [gen EXCEPT ![g] =
                       [IdleGen EXCEPT !.pc = "v1read", !.route = "v1", !.orderId = orderId]]
          /\ processingPaymentLinks' = processingPaymentLinks \cup {orderId}
  /\ UNCHANGED <<invoices, now, envVars, hookVars, gatewayCalls, callsMade, plain>>

\* POST /v1/payment-links: getByOrderId and the checks of the route
V1Read(g) ==
  /\ gen[g].pc = "v1read"
  /\ LET id == findByOrderId(invoices, gen[g].orderId)
         r == V1Resp(invoices, gen[g].orderId, now)
     IN IF r # Null
        THEN /\ gen' = [gen EXCEPT ![g] =
                          Ended(g, r, Null,
                                IF r = "LINK_200" THEN invoices[id].paymentLink ELSE None)]
             /\ processingPaymentLinks' = Release(g)
             /\ UNCHANGED callsMade
        ELSE /\ TotalCalls < MaxCalls
             /\ callsMade' = [callsMade EXCEPT ![id] = @ + 1]
             /\ gen' = [gen EXCEPT ![g] = [@ EXCEPT !.pc = "p1read", !.id = id]]
             /\ UNCHANGED processingPaymentLinks
  /\ UNCHANGED <<invoices, now, envVars, hookVars, gatewayCalls, plain>>

P1ReadCompensates(g) ==
  /\ gen[g].pc = "p1read"
  /\ LET id == gen[g].id
         e == Phase1Error(invoices, id, now)
     IN gen' = [gen EXCEPT ![g] =
                  IF e # Null THEN [@ EXCEPT !.pc = "p3b", !.error = e]
                  ELSE [@ EXCEPT !.pc = "p1write",
                                 !.count = invoices[id].paymentAttemptCount + 1,
                                 !.stamp = Some(now)]]
  /\ UNCHANGED <<invoices, now, envVars, hookVars, gatewayCalls, callsMade,
                 processingPaymentLinks, plain>>

\* Phase 1, the read: findById and the eligibility checks; the counter and the
\* timestamp are set on the entity in memory
GenP1Read(g) ==
  /\ gen[g].pc = "p1read"
  /\ LET id == gen[g].id
         e == Phase1Error(invoices, id, now)
     IN IF e # Null
        THEN /\ gen' = [gen EXCEPT ![g] = Ended(g, "ERROR", e, None)]
             /\ processingPaymentLinks' = Release(g)
        ELSE /\ gen' = [gen EXCEPT ![g] =
                          [@ EXCEPT !.pc = "p1write",
                                    !.count = invoices[id].paymentAttemptCount + 1,
                                    !.stamp = Some(now)]]
             /\ UNCHANGED processingPaymentLinks
  /\ UNCHANGED <<invoices, now, envVars, hookVars, gatewayCalls, callsMade, plain>>

\* Phase 1, the flush: UPDATE ... SET payment_attempt_count, payment_link_created_at
\* WHERE id; the read took no lock, the row may have changed since
GenP1Write(g) ==
  /\ gen[g].pc = "p1write"
  /\ invoices' = [invoices EXCEPT ![gen[g].id] =
                    [@ EXCEPT !.paymentAttemptCount = gen[g].count,
                              !.paymentLinkCreatedAt = gen[g].stamp]]
  /\ gen' = [gen EXCEPT ![g] = [@ EXCEPT !.pc = "gateway"]]
  /\ UNCHANGED <<now, envVars, hookVars, gatewayCalls, callsMade,
                 processingPaymentLinks, plain>>

\* an orderId as POST /invoices generates it: PAY-<13 digits>-<9 characters>
LongOrderId == "PAY-1700000000000-abcdefghi"

\* orderId.substring(0, 25): the generated orderId loses its last two
\* characters, the other orderIds of the model have fewer than 25
Truncated(orderId) ==
  IF orderId = LongOrderId THEN "PAY-1700000000000-abcdefg" ELSE orderId

\* midtransOrderId = `${orderId.substring(0, 25)}-${paymentAttemptCount}`
midtransOrderId(orderId, paymentAttemptCount) ==
  Truncated(orderId) \o "-" \o ToString(paymentAttemptCount)

\* Phase 2: the gateway is asked for a link; it answers with a new URL or fails
GenGateway(g, ok) ==
  /\ gen[g].pc = "gateway"
  /\ gatewayCalls' = [gatewayCalls EXCEPT ![gen[g].id] = Append(@, gen[g].count)]
  /\ gen' = [gen EXCEPT ![g] =
               IF ok
               THEN [@ EXCEPT !.pc = "p3a",
                              !.url = Some(<<gen[g].id, Len(gatewayCalls[gen[g].id]) + 1>>)]
               ELSE [@ EXCEPT !.pc = "p3b", !.error = "Midtrans API error"]]
  /\ UNCHANGED <<invoices, now, envVars, hookVars, callsMade,
                 processingPaymentLinks, plain>>

\* Phase 3a: the link is stored; a vanished invoice throws into the catch block
GenP3a(g) ==
  /\ gen[g].pc = "p3a"
  /\ LET id == gen[g].id
     IN IF findById(invoices, id) = 0
        THEN /\ gen' = [gen EXCEPT ![g] = [@ EXCEPT !.pc = "p3b", !.error = "Invoice Not Found"]]
             /\ UNCHANGED <<invoices, processingPaymentLinks>>
        ELSE /\ invoices' = [invoices EXCEPT ![id].paymentLink = gen[g].url]
             /\ gen' = [gen EXCEPT ![g] = Ended(g, "OK", Null, gen[g].url)]
             /\ processingPaymentLinks' = Release(g)
  /\ UNCHANGED <<now, envVars, hookVars, gatewayCalls, callsMade, plain>>

P3bSkips(g) ==
  /\ gen[g].pc = "p3b"
  /\ invoices' = invoices
  /\ gen' = [gen EXCEPT ![g] = Ended(g, "ERROR", gen[g].error, None)]
  /\ processingPaymentLinks' = Release(g)
  /\ UNCHANGED <<now, envVars, hookVars, gatewayCalls, callsMade, plain>>

\* Phase 3b: the timestamp is cleared, the counter stays, the error is re-thrown
GenP3b(g) ==
  /\ gen[g].pc = "p3b"
  /\ LET id == gen[g].id
     IN /\ invoices' = IF findById(invoices, id) = 0 THEN invoices
                       ELSE [invoices EXCEPT ![id].paymentLinkCreatedAt = None]
        /\ gen' = [gen EXCEPT ![g] = Ended(g, "ERROR", gen[g].error, None)]
        /\ processingPaymentLinks' = Release(g)
  /\ UNCHANGED <<now, envVars, hookVars, gatewayCalls, callsMade, plain>>

GenNext ==
  \/ Tick
  \/ \E o \in GenOrderIds, a \in Amounts : CreateInvoice(o, a)
  \/ \E id \in 1..MaxInvoices : SoftDelete(id)
  \/ \E g \in Gens, id \in 1..MaxInvoices : SvcCall(g, id)
  \/ \E g \in Gens, o \in OrderIds : V1Call(g, o)
  \/ \E g \in Gens : V1Read(g)
  \/ \E g \in Gens : GenP1Read(g)
  \/ \E g \in Gens : GenP1Write(g)
  \/ \E g \in Gens, ok \in BOOLEAN : GenGateway(g, ok)
  \/ \E g \in Gens : GenP3a(g)
  \/ \E g \in Gens : GenP3b(g)

SpecGen == Init /\ [][GenNext]_vars

(***************************************************************************)
(* generatePaymentLink called in sequence by one client while the gateway  *)
(* is down                                                                 *)
(***************************************************************************)
SeqCall(id) ==
  /\ id \in Ids(invoices)
  /\ SvcCall(1, id)

SeqNext ==
  \/ Tick
  \/ \E o \in OrderIds, a \in Amounts : CreateInvoice(o, a)
  \/ \E id \in 1..MaxInvoices : SeqCall(id)
  \/ GenP1Read(1)
  \/ GenP1Write(1)
  \/ GenGateway(1, FALSE)
  \/ GenP3b(1)

SpecSeq == Init /\ [][SeqNext]_vars

(***************************************************************************)
(* generatePaymentLink with a gateway that answers with a link, answers    *)
(* with an error, or does not answer: the steps of the service are taken   *)
(* whenever they can be, the answer of the gateway is up to the gateway    *)
(* (fetch is called without a signal or timeout)                           *)
(***************************************************************************)
LiveNext ==
  \/ Tick
  \/ \E o \in GenOrderIds, a \in Amounts : CreateInvoice(o, a)
  \/ \E id \in 1..MaxInvoices : SeqCall(id)
  \/ GenP1Read(1)
  \/ GenP1Write(1)
  \/ \E ok \in BOOLEAN : GenGateway(1, ok)
  \/ GenP3a(1)
  \/ GenP3b(1)

ServiceSteps == GenP1Read(1) \/ GenP1Write(1) \/ GenP3a(1) \/ GenP3b(1)

SpecLive == Init /\ [][LiveNext]_vars /\ WF_vars(ServiceSteps)

(***************************************************************************)
(* POST /midtrans/notification as one step, applied to the invoices table  *)
(* and to the table of the same system without the short-circuit on        *)
(* processedNotifications                                                  *)
(***************************************************************************)
\* the answer of the handler, lines 40-144
DeliverResp(store, cache, n, production, shortCircuit) ==
  LET r == ReceiveResp(n, cache, production, shortCircuit)
      l == LookupResp(store, n)
  IN IF r # Null THEN r
     ELSE IF l # Null THEN l
     ELSE IF casResult(store, n.order_id) = "SUCCESS" THEN "SUCCESS_200"
     ELSE "ATOMIC_NOOP_200"

\* the table the handler leaves
DeliverStore(store, cache, n, t, production, shortCircuit) ==
  IF DeliverResp(store, cache, n, production, shortCircuit) = "SUCCESS_200"
  THEN casStore(store, n.order_id, mapMidtransStatusToInvoice(n.transaction_status),
                Some(n), t)
  ELSE store

\* the Set the handler leaves
DeliverCache(store, cache, n, production, shortCircuit) ==
  IF DeliverResp(store, cache, n, production, shortCircuit) = "SUCCESS_200"
  THEN AddProcessed(cache, notificationId(n))
  ELSE cache

EqCreate(orderId, amount) ==
  /\ Len(invoices) < MaxInvoices
  /\ invoices' = create(invoices, orderId, amount)
  /\ plain' = create(plain, orderId, amount)
  /\ UNCHANGED <<now, envVars, hookVars, genVars>>

EqSoftDelete(id) ==
  /\ id \in Ids(invoices)
  /\ invoices' = softDelete(invoices, id, now)
  /\ plain' = softDelete(plain, id, now)
  /\ UNCHANGED <<now, envVars, hookVars, genVars>>

EqDeliver(n) ==
  /\ invoices' = DeliverStore(invoices, processedNotifications, n, now, isProduction, TRUE)
  /\ processedNotifications' =
       DeliverCache(invoices, processedNotifications, n, isProduction, TRUE)
  /\ plain' = DeliverStore(plain, processedNotifications, n, now, isProduction, FALSE)
  /\ hook' = [hook EXCEPT ![1] =
                [IdleHook EXCEPT
                   !.pc = "done", !.n = Some(n),
                   !.resp = DeliverResp(invoices, processedNotifications, n,
                                        isProduction, TRUE)]]
  /\ UNCHANGED <<now, envVars, genVars>>

EqNext ==
  \/ HookTick
  \/ \E o \in OrderIds, a \in Amounts : EqCreate(o, a)
  \/ \E id \in 1..MaxInvoices : EqSoftDelete(id)
  \/ \E n \in Notifications : EqDeliver(n)

SpecEq == Init /\ [][EqNext]_vars


(***************************************************************************)
(* The methods of the invoice service called directly: create as the two   *)
(* statements of its transaction, the others as one transaction each       *)
(***************************************************************************)
\* the paymentData of updateStatus: camel-case fields
PaymentData == [paymentType |-> "qris", gatewayResponse |-> Some(BaseNotification)]

StatusArgs == InvoiceStatus \cup {"REFUNDED"}
CallbackOrderIds == OrderIds \cup {"1", ""}
CallbackStatuses == {"settlement", "pending", "expire", "deny", "refund", ""}

Returned(k, op, orderId, result) ==
  [call EXCEPT ![k] = [IdleCall EXCEPT !.pc = "done", !.op = op, !.orderId = orderId,
                                       !.result = result]]

\* create, the check: em.findOne(Invoice, { orderId, deletedAt: null })
CreateFind(k, orderId, amount) ==
  /\ call[k].pc \in {"idle", "done"}
  /\ Len(invoices) < MaxInvoices
  /\ call' = IF findByOrderId(invoices, orderId) # 0
             THEN Returned(k, "create", orderId, "INVOICE_ALREADY_EXISTS")
             ELSE [call EXCEPT ![k] = [IdleCall EXCEPT !.pc = "insert", !.op = "create",
                                                       !.orderId = orderId,
                                                       !.amount = amount]]
  /\ UNCHANGED <<invoices, now, isProduction, hookVars, genVars, plain>>

\* create, the insert: persistAndFlush under the unique index on order_id
CreateInsert(k) ==
  /\ call[k].pc = "insert"
  /\ IF OrderIdUnique(invoices, call[k].orderId)
     THEN /\ invoices' = Append(invoices, NewInvoice(call[k].orderId, call[k].amount))
          /\ call' = Returned(k, "create", call[k].orderId, "CREATED")
     ELSE /\ invoices' = invoices
          /\ call' = Returned(k, "create", call[k].orderId, "UNIQUE_CONSTRAINT")
  /\ UNCHANGED <<now, isProduction, hookVars, genVars, plain>>

\* create called by concurrent clients, soft delete between the calls
CreateNext ==
  \/ HookTick
  \/ \E k \in Callers, o \in OrderIds, a \in Amounts : CreateFind(k, o, a)
  \/ \E k \in Callers : CreateInsert(k)
  \/ \E id \in 1..MaxInvoices : SoftDelete(id)

SpecCreate == Init /\ [][CreateNext]_vars

UpdateStatus(id, status, paymentData) ==
  /\ id \in Ids(invoices)
  /\ invoices' = updateStatus(invoices, id, status, paymentData, now)
  /\ UNCHANGED <<now, envVars, hookVars, genVars, plain>>

UpdateStatusByOrderId(orderId, status, paymentData) ==
  /\ invoices' = updateStatusByOrderId(invoices, orderId, status, paymentData, now)
  /\ UNCHANGED <<now, envVars, hookVars, genVars, plain>>

\* handleMidtransCallback of invoice.service.legacy.ts
LegacyCallback(orderId, transactionStatus) ==
  /\ invoices' = callbackStore(invoices, legacyFound(invoices, orderId), orderId,
                               transactionStatus, BaseNotification, now)
  /\ UNCHANGED <<now, envVars, hookVars, genVars, plain>>

\* handleMidtransCallback of the InvoiceService over the repository
HandleMidtransCallback(orderId, transactionStatus) ==
  /\ invoices' = callbackStore(invoices, refactoredFound(invoices, orderId), orderId,
                               transactionStatus, BaseNotification, now)
  /\ UNCHANGED <<now, envVars, hookVars, genVars, plain>>

\* updateStatusAtomicFromPending with the notification as paymentData
CasCall(orderId, newStatus) ==
  /\ invoices' = casStore(invoices, orderId, newStatus, Some(BaseNotification), now)
  /\ UNCHANGED <<now, envVars, hookVars, genVars, plain>>

StoreNext ==
  \/ HookTick
  \/ \E o \in OrderIds, a \in Amounts : CreateInvoice(o, a)
  \/ \E id \in 1..MaxInvoices : SoftDelete(id)
  \/ \E id \in 1..MaxInvoices, st \in StatusArgs, pd \in {None, Some(PaymentData)} :
       UpdateStatus(id, st, pd)
  \/ \E o \in OrderIds, st \in StatusArgs, pd \in {None, Some(PaymentData)} :
       UpdateStatusByOrderId(o, st, pd)
  \/ \E o \in CallbackOrderIds, ts \in CallbackStatuses : LegacyCallback(o, ts)
  \/ \E o \in CallbackOrderIds, ts \in CallbackStatuses : HandleMidtransCallback(o, ts)
  \/ \E o \in OrderIds, st \in InvoiceStatus : CasCall(o, st)

SpecStore == Init /\ [][StoreNext]_vars

(***************************************************************************)
(* The transition check and the two status mappings, called on every       *)
(* argument                                                                *)
(***************************************************************************)
\* the vendor statuses of the table and two the table does not know
StatusInputs == VendorStatuses \cup {"refund", "authorize"}

CheckTransition(k, currentStatus, newStatus) ==
  /\ call' = [call EXCEPT ![k] =
                [IdleCall EXCEPT !.pc = "done", !.op = "isValidStatusTransition",
                                 !.args = <<currentStatus, newStatus>>,
                                 !.ok = isValidStatusTransition(currentStatus, newStatus)]]
  /\ UNCHANGED <<invoices, now, isProduction, hookVars, genVars, plain>>

MapStatus(k, transactionStatus) ==
  /\ call' = [call EXCEPT ![k] =
                [IdleCall EXCEPT !.pc = "done", !.op = "mapMidtransStatusToInvoice",
                                 !.args = <<transactionStatus>>,
                                 !.result = mapMidtransStatusToInvoice(transactionStatus)]]
  /\ UNCHANGED <<invoices, now, isProduction, hookVars, genVars, plain>>

CallbackSwitch(k, transactionStatus) ==
  /\ call' = [call EXCEPT ![k] =
                [IdleCall EXCEPT !.pc = "done", !.op = "handleMidtransCallback",
                                 !.args = <<transactionStatus>>,
                                 !.result = callbackStatus(transactionStatus)]]
  /\ UNCHANGED <<invoices, now, isProduction, hookVars, genVars, plain>>

FnNext ==
  \/ \E k \in Callers, c \in InvoiceStatus, n \in InvoiceStatus : CheckTransition(k, c, n)
  \/ \E k \in Callers, ts \in StatusInputs : MapStatus(k, ts)
  \/ \E k \in Callers, ts \in StatusInputs : CallbackSwitch(k, ts)

SpecFn == Init /\ [][FnNext]_vars

(***************************************************************************)
(* POST /notification of the second copy of the webhook route: no          *)
(* transition check, a NOOP of the conditional update is thrown            *)
(***************************************************************************)
\* lookup, business rules, mapping
OldLookupResp(store, n) ==
  LET id == findByOrderId(store, n.order_id)
  IN IF id = 0 THEN "NOT_FOUND_404"
     ELSE IF validatePaymentRules(store[id], n) # Null THEN "BUSINESS_RULE_400"
     ELSE IF mapMidtransStatusToInvoice(n.transaction_status) = Null
          THEN "UNKNOWN_STATUS_500"
     ELSE Null

OldReceive(h, n) ==
  /\ hook[h].pc = "idle"
  /\ LET r == ReceiveResp(n, processedNotifications, isProduction, TRUE)
     IN hook' = [hook EXCEPT ![h] =
                   [@ EXCEPT !.n = Some(n),
                             !.pc = IF r = Null THEN "oldlookup" ELSE "done",
                             !.resp = r]]
  /\ UNCHANGED <<invoices, now, envVars, processedNotifications, genVars, plain>>

OldLookup(h) ==
  /\ hook[h].pc = "oldlookup"
  /\ LET n == Val(hook[h].n)
         r == OldLookupResp(invoices, n)
         id == findByOrderId(invoices, n.order_id)
     IN hook' = [hook EXCEPT ![h] =
                   [@ EXCEPT !.pc = IF r = Null THEN "oldcas" ELSE "done",
                             !.resp = r,
                             !.snap = IF id = 0 THEN Null ELSE invoices[id].status,
                             !.newStatus = IF r = Null
                                           THEN mapMidtransStatusToInvoice(n.transaction_status)
                                           ELSE Null]]
  /\ UNCHANGED <<invoices, now, envVars, processedNotifications, genVars, plain>>

\* the conditional update; NOOP throws 'Invoice not in PENDING state', which
\* the catch block answers with 500
OldCas(h) ==
  /\ hook[h].pc = "oldcas"
  /\ LET n == Val(hook[h].n)
         res == casResult(invoices, n.order_id)
     IN /\ invoices' = casStore(invoices, n.order_id, hook[h].newStatus, Some(n), now)
        /\ hook' = [hook EXCEPT ![h] =
                      [@ EXCEPT !.pc = IF res = "SUCCESS" THEN "finish" ELSE "done",
                                !.resp = IF res = "SUCCESS" THEN Null ELSE "NOOP_THROWN_500"]]
  /\ UNCHANGED <<now, envVars, processedNotifications, genVars, plain>>

OldNotifications ==
  {[BaseNotification EXCEPT !.transaction_status = ts, !.gross_amount = g] :
     ts \in {"settlement", "expire", "deny"}, g \in {"100.00", "90.00"}}

OldNext ==
  \/ HookTick
  \/ \E o \in GenOrderIds, a \in Amounts : CreateInvoice(o, a)
  \/ \E id \in 1..MaxInvoices : SoftDelete(id)
  \/ \E h \in Handlers, n \in OldNotifications : OldReceive(h, n)
  \/ \E h \in Handlers : OldLookup(h) \/ OldCas(h) \/ HookFinish(h)

SpecOld == Init /\ [][OldNext]_vars

(***************************************************************************)
(* POST /midtrans/notification of the route the service module exports     *)
(* (callbackRoute): the signature is always verified, there is no amount   *)
(* check and no processed set, and every delivery with a JSON body is      *)
(* answered 200 { received: true }; what happened is only logged           *)
(***************************************************************************)
\* verifySignature(notification) of the service module: a missing field
\* fails, otherwise the presented signature is compared with the computed
\* one
callbackVerifySignature(n) ==
  IF n.order_id = "" \/ n.gross_amount = "" \/ n.signature = "" THEN FALSE
  ELSE n.signature = "valid"

\* what the route logs before it answers without an update
CallbackLookupLog(store, n) ==
  LET id == findByOrderId(store, n.order_id)
      newStatus == mapMidtransStatusToInvoice(n.transaction_status)
  IN IF id = 0 THEN "INVOICE_NOT_FOUND"
     ELSE IF newStatus = Null THEN "UNKNOWN_TRANSACTION_STATUS"
     ELSE IF ~isValidStatusTransition(store[id].status, newStatus)
          THEN "INVALID_STATUS_TRANSITION"
     ELSE IF store[id].status = newStatus THEN "STATUS_ALREADY_SET"
     ELSE Null

CallbackReceive(h, n) ==
  /\ hook[h].pc = "idle"
  /\ LET ok == callbackVerifySignature(n)
     IN hook' = [hook EXCEPT ![h] =
                   [@ EXCEPT !.n = Some(n),
                             !.pc = IF ok THEN "cblookup" ELSE "done",
                             !.resp = IF ok THEN Null ELSE "RECEIVED_200",
                             !.audit = IF ok THEN Null ELSE "INVALID_SIGNATURE"]]
  /\ UNCHANGED <<invoices, now, envVars, processedNotifications, genVars, plain>>

CallbackLookup(h) ==
  /\ hook[h].pc = "cblookup"
  /\ LET n == Val(hook[h].n)
         log == CallbackLookupLog(invoices, n)
         id == findByOrderId(invoices, n.order_id)
     IN hook' = [hook EXCEPT ![h] =
                   [@ EXCEPT !.pc = IF log = Null THEN "cbcas" ELSE "done",
                             !.resp = IF log = Null THEN Null ELSE "RECEIVED_200",
                             !.audit = log,
                             !.snap = IF id = 0 THEN Null ELSE invoices[id].status,
                             !.newStatus = IF log = Null
                                           THEN mapMidtransStatusToInvoice(n.transaction_status)
                                           ELSE Null]]
  /\ UNCHANGED <<invoices, now, envVars, processedNotifications, genVars, plain>>

CallbackCas(h) ==
  /\ hook[h].pc = "cbcas"
  /\ LET n == Val(hook[h].n)
         res == casResult(invoices, n.order_id)
     IN /\ invoices' = casStore(invoices, n.order_id, hook[h].newStatus, Some(n), now)
        /\ hook' = [hook EXCEPT ![h] =
                      [@ EXCEPT !.pc = "done", !.resp = "RECEIVED_200",
                                !.audit = IF res = "SUCCESS" THEN "ATOMIC_SUCCESS"
                                          ELSE "ATOMIC_NOOP"]]
  /\ UNCHANGED <<now, envVars, processedNotifications, genVars, plain>>

CallbackNotifications ==
  {[BaseNotification EXCEPT !.transaction_status = ts, !.gross_amount = g, !.signature = sg] :
     ts \in {"settlement", "pending", "refund"}, g \in {"100.00", "90.00"},
     sg \in {"valid", "forged"}}

CallbackNext ==
  \/ HookTick
  \/ \E o \in GenOrderIds, a \in Amounts : CreateInvoice(o, a)
  \/ \E id \in 1..MaxInvoices : SoftDelete(id)
  \/ \E h \in Handlers, n \in CallbackNotifications : CallbackReceive(h, n)
  \/ \E h \in Handlers : CallbackLookup(h)
  \/ \E h \in Handlers : CallbackCas(h)

SpecCallback == Init /\ [][CallbackNext]_vars

(***************************************************************************)
(* Notifications and link generation on the same invoices                  *)
(***************************************************************************)
PayNotifications ==
  {[BaseNotification EXCEPT !.transaction_status = ts] :
     ts \in {"settlement", "expire"}}

PayNext ==
  \/ HookTick
  \/ \E o \in GenOrderIds, a \in Amounts : CreateInvoice(o, a)
  \/ \E id \in 1..MaxInvoices : SoftDelete(id)
  \/ \E h \in Handlers, n \in PayNotifications : HookReceive(h, n)
  \/ \E h \in Handlers : HookLookup(h) \/ HookCas(h) \/ HookFinish(h)
  \/ \E id \in 1..MaxInvoices : SvcCall(1, id)
  \/ GenP1Read(1) \/ GenP1Write(1)
  \/ \E ok \in BOOLEAN : GenGateway(1, ok)
  \/ GenP3a(1) \/ GenP3b(1)

SpecPay == Init /\ [][PayNext]_vars

(***************************************************************************)
(* The gateway notifies the merchant about a payment made through a        *)
(* generated link: the notification carries the order_id of the request    *)
(***************************************************************************)
RefOrderIds == {"A", LongOrderId}

\* the order_id values sent to the gateway for invoice i so far
SentReferences(i) ==
  {midtransOrderId(invoices[i].orderId, gatewayCalls[i][j]) : j \in DOMAIN gatewayCalls[i]}

\* a settlement for a link of invoice i, or one that names its orderId
RefNotifications(i) ==
  {[BaseNotification EXCEPT !.order_id = o] : o \in SentReferences(i) \cup {invoices[i].orderId}}

RefNext ==
  \/ HookTick
  \/ \E o \in RefOrderIds, a \in Amounts : CreateInvoice(o, a)
  \/ \E id \in 1..MaxInvoices : SeqCall(id)
  \/ GenP1Read(1) \/ GenP1Write(1)
  \/ \E ok \in BOOLEAN : GenGateway(1, ok)
  \/ GenP3a(1) \/ GenP3b(1)
  \/ \E h \in Handlers, i \in Ids(invoices) : \E n \in RefNotifications(i) : HookReceive(h, n)
  \/ \E h \in Handlers : HookLookup(h) \/ HookCas(h) \/ HookFinish(h)

SpecRef == Init /\ [][RefNext]_vars

(***************************************************************************)
(* A link is asked for an invoice that notifications may have failed       *)
(***************************************************************************)
FailNotifications ==
  {[BaseNotification EXCEPT !.transaction_status = ts] : ts \in {"deny", "settlement"}}

FailNext ==
  \/ HookTick
  \/ \E o \in GenOrderIds, a \in Amounts : CreateInvoice(o, a)
  \/ \E h \in Handlers, n \in FailNotifications : HookReceive(h, n)
  \/ \E h \in Handlers : HookLookup(h) \/ HookCas(h) \/ HookFinish(h)
  \/ \E id \in 1..MaxInvoices : SvcCall(1, id)
  \/ GenP1Read(1) \/ GenP1Write(1)
  \/ \E ok \in BOOLEAN : GenGateway(1, ok)
  \/ GenP3a(1) \/ GenP3b(1)

SpecFail == Init /\ [][FailNext]_vars

(***************************************************************************)
(* Properties of the webhook handler                                       *)
(***************************************************************************)
RowOf(orderId) == {i \in Ids(invoices) : invoices[i].orderId = orderId}

\* C1 - monotonicity under notifications: once the persisted status of an
\* invoice is PAID, FAILED or EXPIRED, no step of any webhook delivery (nor of
\* a create or soft delete running beside it) changes that status again.
C1_Monotonic ==
  [][\A i \in Ids(invoices) :
       invoices[i].status \in FinalStatuses => invoices'[i].status = invoices[i].status]_vars

\* a delivery lost the conditional update against a row that is final with a
\* status other than the one the delivery asked for
C1_Witness ==
  \E h \in Handlers, i \in Ids(invoices) :
    /\ hook[h].pc = "done" /\ hook[h].resp = "ATOMIC_NOOP_200"
    /\ invoices[i].orderId = Val(hook[h].n).order_id
    /\ invoices[i].deletedAt = None
    /\ invoices[i].status \in FinalStatuses
    /\ invoices[i].status # hook[h].newStatus

\* the calls of updateStatusAtomicFromPending made so far for an order
CallsFor(orderId) ==
  {h \in Handlers : hook[h].direct /\ Val(hook[h].n).order_id = orderId}

Winners(orderId) == {h \in CallsFor(orderId) : hook[h].resp = "SUCCESS"}

RowIsOf(i, h) ==
  /\ invoices[i].status = hook[h].newStatus
  /\ invoices[i].gatewayResponse = hook[h].n
  /\ invoices[i].paymentType = Val(hook[h].n).payment_type
  /\ (invoices[i].paidAt # None) = (hook[h].newStatus = "PAID")

ExactlyOneWins(orderId) ==
  /\ Cardinality(Winners(orderId)) = 1
  /\ \A h \in CallsFor(orderId) \ Winners(orderId) : hook[h].resp = "NOOP"
  /\ \A i \in RowOf(orderId), h \in Winners(orderId) : RowIsOf(i, h)

RaceOver(orderId) ==
  /\ CallsFor(orderId) # {}
  /\ \A h \in CallsFor(orderId) : hook[h].sawPending /\ hook[h].pc = "done"

\* C2 (as stated) - whenever calls of updateStatusAtomicFromPending, all made
\* while the live invoice was PENDING, have all returned, exactly one returned
\* SUCCESS, the others NOOP, and the row carries the data of the SUCCESS call.
C2_AnyNewStatus ==
  \A o \in OrderIds : RaceOver(o) => ExactlyOneWins(o)

\* C2 (amended) - the same for calls whose newStatus is PAID, FAILED or
\* EXPIRED: exactly one SUCCESS, every other NOOP, the row is the winner's.
C2_CompareAndSet ==
  \A o \in OrderIds :
    (RaceOver(o) /\ \A h \in CallsFor(o) : hook[h].newStatus \in FinalStatuses)
      => ExactlyOneWins(o)

\* every handler raced on the same PENDING invoice with different final
\* statuses; one won, the other got NOOP
C2_Witness ==
  \E o \in OrderIds :
    /\ RaceOver(o)
    /\ CallsFor(o) = Handlers
    /\ \A h \in Handlers : hook[h].newStatus \in FinalStatuses
    /\ \E h, k \in Handlers : /\ hook[h].newStatus # hook[k].newStatus
                              /\ hook[h].resp = "SUCCESS" /\ hook[k].resp = "NOOP"

Delivered(orderId) ==
  {h \in Handlers : ~hook[h].direct /\ hook[h].n # None /\ Val(hook[h].n).order_id = orderId}

\* every handler took a delivery for the order, all of them valid, with the
\* exact amount and the same final target status, all received while the live
\* invoice was PENDING and before any of them was answered, and all are answered
RaceDelivered(orderId) ==
  /\ Delivered(orderId) = Handlers
  /\ \A i \in RowOf(orderId) : invoices[i].deletedAt = None
  /\ \A h \in Handlers :
       /\ hook[h].pc = "done" /\ hook[h].overlap /\ hook[h].sawPending
       /\ validateWebhookRequest(Val(hook[h].n)) = Null
       /\ verifySignature(Val(hook[h].n), TRUE)
       /\ mapMidtransStatusToInvoice(Val(hook[h].n).transaction_status) \in FinalStatuses
       /\ \A k \in Handlers :
            mapMidtransStatusToInvoice(Val(hook[h].n).transaction_status)
              = mapMidtransStatusToInvoice(Val(hook[k].n).transaction_status)
       /\ \A i \in RowOf(orderId) :
            NumberOf(Val(hook[h].n).gross_amount) = invoices[i].amount

\* C3 - race safety of the handler: such a race ends with exactly one SUCCESS
\* response, every other response a no-op, and no error response.
C3_RaceSafety ==
  \A o \in OrderIds :
    RaceDelivered(o) =>
      /\ Cardinality({h \in Handlers : hook[h].resp \in SuccessResps}) = 1
      /\ \A h \in Handlers : hook[h].resp \in SuccessResps \cup NoopResps

\* C4 - idempotence of redelivery: a notification identical to one that has
\* been answered SUCCESS is always answered as a duplicate (a success) in the
\* very step that receives it, and that step leaves every invoice row as it
\* was.
C4_Redelivery ==
  [][\A h \in Handlers :
       (hook[h].pc = "idle" /\ hook'[h].pc # "idle" /\ hook'[h].replay)
         => /\ hook'[h].pc = "done"
            /\ hook'[h].resp = "DUPLICATE_200"
            /\ invoices' = invoices]_vars

\* the amount of the notification differs from the amount of the invoice of
\* its order
Mismatch(n) ==
  \A i \in RowOf(n.order_id) : NumberOf(n.gross_amount) # invoices[i].amount

\* C5 - exact-amount law: no step of a delivery whose gross amount (as a
\* number) differs from the invoice's amount changes any invoice, whatever the
\* invoice's status; once the handler has found the invoice, its answer is the
\* business-rule violation.
C5_ExactAmount ==
  [][\A h \in Handlers :
       (hook'[h] # hook[h] /\ ~hook'[h].direct /\ Mismatch(Val(hook'[h].n)))
         => /\ invoices' = invoices
            /\ (hook'[h].pc = "done" /\ hook'[h].snap # Null)
                 => hook'[h].resp = "BUSINESS_RULE_400"]_vars

\* Scenario B: a PENDING invoice of 100, a delivery with 90, the answer is the
\* business-rule violation and the invoice is still PENDING
C5_Witness ==
  \E h \in Handlers, i \in Ids(invoices) :
    /\ hook[h].pc = "done" /\ hook[h].resp = "BUSINESS_RULE_400"
    /\ hook[h].snap = "PENDING"
    /\ invoices[i].orderId = Val(hook[h].n).order_id
    /\ invoices[i].amount = 100 /\ NumberOf(Val(hook[h].n).gross_amount) = 90
    /\ invoices[i].status = "PENDING"

(***************************************************************************)
(* Properties of payment-link generation                                   *)
(***************************************************************************)
\* C6 - attempt budget invariant: in every state each invoice's
\* paymentAttemptCount is between 0 and 3, and no step of any interleaving of
\* generatePaymentLink calls and soft deletes lowers it.
C6_AttemptBudget ==
  [][\A i \in Ids(invoices) :
       /\ invoices[i].paymentAttemptCount \in 0..MaxAttempts
       /\ invoices'[i].paymentAttemptCount >= invoices[i].paymentAttemptCount]_vars

\* C7 - external-call bound: for every invoice, the gateway has been asked for
\* a link at most 3 times, however many generatePaymentLink calls run together.
C7_CallBound ==
  \A i \in 1..MaxInvoices : Len(gatewayCalls[i]) <= MaxAttempts

\* C8 - Scenario D: when the k-th of the sequential calls on a fresh invoice
\* is over and the gateway failed every time, then for k = 1, 2, 3 the counter
\* is k, the gateway was called k times, there is no link and no link
\* timestamp, and the gateway error was re-thrown; for k = 4 the call failed
\* with MAX_PAYMENT_ATTEMPTS_REACHED, the gateway was still called 3 times and
\* the counter is 3.
C8_ScenarioD ==
  \A id \in Ids(invoices) :
    (gen[1].pc = "done" /\ gen[1].id = id) =>
      /\ callsMade[id] \in 1..MaxAttempts =>
           /\ invoices[id].paymentAttemptCount = callsMade[id]
           /\ Len(gatewayCalls[id]) = callsMade[id]
           /\ invoices[id].paymentLinkCreatedAt = None
           /\ invoices[id].paymentLink = None
           /\ gen[1].error = "Midtrans API error"
      /\ callsMade[id] = MaxAttempts + 1 =>
           /\ gen[1].error = "MAX_PAYMENT_ATTEMPTS_REACHED"
           /\ Len(gatewayCalls[id]) = MaxAttempts
           /\ invoices[id].paymentAttemptCount = MaxAttempts
           /\ invoices[id].paymentLinkCreatedAt = None

\* the fourth call on an invoice was refused
C8_Witness ==
  \E id \in Ids(invoices) :
    /\ gen[1].pc = "done" /\ gen[1].id = id
    /\ callsMade[id] = 4
    /\ gen[1].error = "MAX_PAYMENT_ATTEMPTS_REACHED"
    /\ gatewayCalls[id] = <<1, 2, 3>>
    /\ invoices[id].paymentAttemptCount = 3

\* the link of the row is set and was stamped less than 30 minutes before t
LinkFresh(row, t) ==
  /\ row.paymentLink # None
  /\ row.paymentLinkCreatedAt # None
  /\ Val(row.paymentLinkCreatedAt) + MaxAge > t

\* the live invoice a request is about to read, 0 when there is none
Target(g) ==
  IF gen[g].pc = "v1read" THEN findByOrderId(invoices, gen[g].orderId)
  ELSE IF gen[g].pc = "p1read" THEN findById(invoices, gen[g].id)
  ELSE 0

\* request g reads the invoice in this step
Reads(g) == gen[g].pc \in {"v1read", "p1read"} /\ gen'[g] # gen[g]

\* not PAID, not EXPIRED, budget left
Open(row) == row.status \notin {"PAID", "EXPIRED"} /\ row.paymentAttemptCount < MaxAttempts

\* C9 (as stated) - a request that reads a live invoice whose link is active
\* ends with that link as its answer and changes nothing.
C9_ReturnsSameLink ==
  [][\A g \in Gens :
       (Reads(g) /\ Target(g) # 0 /\ LinkFresh(invoices[Target(g)], now))
         => /\ gen'[g].pc = "done"
            /\ gen'[g].url = invoices[Target(g)].paymentLink
            /\ invoices' = invoices
            /\ gatewayCalls' = gatewayCalls]_vars

\* C9 (amended) - a request that reads a live invoice whose link is active
\* ends at once, changes no invoice and calls no gateway; when the invoice is
\* neither PAID nor EXPIRED and its counter is below 3, /v1/payment-links
\* answers 200 with that same link and generatePaymentLink fails with
\* ACTIVE_PAYMENT_LINK_EXISTS.  A request that reads such an invoice whose
\* link is absent or 30 minutes old or older proceeds to Phase 1.
C9_LinkFreshness ==
  [][\A g \in Gens :
       (Reads(g) /\ Target(g) # 0) =>
         LET row == invoices[Target(g)]
         IN /\ LinkFresh(row, now) =>
                 /\ gen'[g].pc = "done"
                 /\ invoices' = invoices
                 /\ gatewayCalls' = gatewayCalls
            /\ (LinkFresh(row, now) /\ Open(row) /\ gen[g].pc = "v1read") =>
                 /\ gen'[g].result = "LINK_200"
                 /\ gen'[g].url = row.paymentLink
            /\ (LinkFresh(row, now) /\ Open(row) /\ gen[g].pc = "p1read") =>
                 /\ gen'[g].result = "ERROR"
                 /\ gen'[g].error = "ACTIVE_PAYMENT_LINK_EXISTS"
            /\ (~LinkFresh(row, now) /\ Open(row) /\ gen[g].pc = "v1read") =>
                 /\ gen'[g].pc = "p1read"
                 /\ gen'[g].id = Target(g)
            /\ (~LinkFresh(row, now) /\ Open(row) /\ gen[g].pc = "p1read") =>
                 /\ gen'[g].pc = "p1write"
                 /\ gen'[g].count = row.paymentAttemptCount + 1]_vars

\* /v1/payment-links answered with the stored link while it was active, and a
\* generatePaymentLink call entered Phase 1 over a link exactly 30 minutes old
C9_Witness ==
  \E g, k \in Gens, i \in Ids(invoices) :
    /\ gen[g].pc = "done" /\ gen[g].result = "LINK_200"
    /\ gen[g].url = invoices[i].paymentLink
    /\ gen[k].pc = "p1write" /\ gen[k].id = i
    /\ invoices[i].paymentLink # None
    /\ invoices[i].paymentLinkCreatedAt # None
    /\ Val(gen[k].stamp) - Val(invoices[i].paymentLinkCreatedAt) = MaxAge

(***************************************************************************)
(* The idempotency-key cache                                               *)
(***************************************************************************)
\* status, paidAt and payment metadata of a row
Settled(row) ==
  <<row.orderId, row.status, row.paidAt, row.paymentType, row.gatewayResponse,
    row.deletedAt>>

\* C10 - the cache is not a correctness mechanism: after every sequence of
\* creations, soft deletions and deliveries the table of the system with the
\* short-circuit and the table of the system without it hold the same
\* invoices with the same status, paidAt and payment metadata.
C10_SameStates ==
  /\ Len(invoices) = Len(plain)
  /\ \A i \in Ids(invoices) : Settled(invoices[i]) = Settled(plain[i])

\* the short-circuit answered a delivery for an invoice that is PAID
C10_Witness ==
  /\ hook[1].pc = "done" /\ hook[1].resp = "DUPLICATE_200"
  /\ \E i \in Ids(invoices) :
       /\ invoices[i].orderId = Val(hook[1].n).order_id
       /\ invoices[i].status = "PAID"
       /\ NumberOf(Val(hook[1].n).gross_amount) # invoices[i].amount


(***************************************************************************)
(* Properties of the store interface                                       *)
(***************************************************************************)
\* C11: no method of the store interface (updateStatus, updateStatusByOrderId,
\* handleMidtransCallback, updateStatusAtomicFromPending, softDelete) changes
\* the status of an invoice whose status is final.
C11_StoreMonotonic ==
  [][\A i \in Ids(invoices) :
       invoices[i].status \in FinalStatuses => invoices'[i].status = invoices[i].status]_vars

\* C12: in every state reached through create, notifications, link
\* generation and soft delete, paidAt is non-null only if the status is PAID;
\* it becomes non-null only in the step that takes the invoice from PENDING to
\* PAID, and once non-null it never changes.
C12_PaidAtOnce ==
  [][\A i \in Ids(invoices') :
       /\ invoices'[i].paidAt # None => invoices'[i].status = "PAID"
       /\ i \in Ids(invoices) /\ invoices[i].paidAt # None =>
            invoices'[i].paidAt = invoices[i].paidAt
       /\ i \in Ids(invoices) /\ invoices[i].paidAt = None /\ invoices'[i].paidAt # None =>
            /\ invoices[i].status = "PENDING"
            /\ invoices'[i].paidAt = Some(now)
       /\ i \notin Ids(invoices) => invoices'[i].paidAt = None]_vars

\* an invoice paid at time 0 is still there at time 1, after a link generation
\* that ended and a further notification that was answered
C12_Witness ==
  \E i \in Ids(invoices) :
    /\ invoices[i].paidAt = Some(0)
    /\ now = 1
    /\ gen[1].pc = "done" /\ gen[1].id = i
    /\ \E h \in Handlers : hook[h].pc = "done" /\ hook[h].resp = "BUSINESS_RULE_400"

(***************************************************************************)
(* Terminal states and the transition table                                *)
(***************************************************************************)
\* a settlement or failure notification with the exact amount for a live
\* invoice that is PAID or EXPIRED
Reuse(n, store) ==
  LET id == findByOrderId(store, n.order_id)
  IN /\ validateWebhookRequest(n) = Null
     /\ n.transaction_status \in {"settlement", "capture", "deny", "failure"}
     /\ id # 0
     /\ store[id].status \in {"PAID", "EXPIRED"}
     /\ NumberOf(n.gross_amount) = store[id].amount

\* handler h answers in this step, and not with the success of its own update
Answers(h) == hook[h].pc \in {"idle", "lookup", "cas"} /\ hook'[h].pc = "done"

\* C13 as stated: every settlement or failure notification with the exact
\* amount that is answered while the invoice is PAID or EXPIRED is answered
\* with the business-rule violation, and no field changes.
C13_AlwaysRejected ==
  [][\A h \in Handlers :
       Answers(h) /\ Reuse(Val(hook'[h].n), invoices) =>
         hook'[h].resp = "BUSINESS_RULE_400" /\ invoices' = invoices]_vars

\* C13 amended: such a notification changes no field; it is answered with the
\* business-rule violation when it is answered by the lookup step, with the
\* duplicate answer when its key is in processedNotifications at receipt (and
\* only then), and with the no-op answer when it is answered by the
\* conditional update of a handler that had read the invoice as PENDING.
C13_TerminalReuse ==
  [][\A h \in Handlers :
       Answers(h) /\ Reuse(Val(hook'[h].n), invoices) =>
         /\ invoices' = invoices
         /\ hook[h].pc = "lookup" => hook'[h].resp = "BUSINESS_RULE_400"
         /\ hook[h].pc = "idle" =>
              /\ hook'[h].resp = "DUPLICATE_200"
              /\ notificationId(Val(hook'[h].n)) \in processedNotifications
         /\ hook[h].pc = "idle" \/ hook[h].pc = "lookup" \/
              (hook[h].pc = "cas" /\ hook[h].snap = "PENDING"
                 /\ hook'[h].resp = "ATOMIC_NOOP_200")]_vars

\* a settlement for a PAID invoice was answered with the violation
C13_Witness ==
  \E h \in Handlers :
    /\ hook[h].pc = "done"
    /\ hook[h].resp = "BUSINESS_RULE_400"
    /\ hook[h].snap = "PAID"
    /\ Reuse(Val(hook[h].n), invoices)

\* C14: isValidStatusTransition(current, next) is true exactly when current
\* is PENDING and next is not PENDING; (PENDING, PENDING) gives false.
C14_TransitionTable ==
  \A k \in Callers :
    call[k].op = "isValidStatusTransition" =>
      call[k].ok = (call[k].args[1] = "PENDING" /\ call[k].args[2] # "PENDING")

\* the closed table of the vendor statuses
StatusTable(ts) ==
  CASE ts = "settlement" \/ ts = "capture" -> "PAID"
    [] ts = "pending" -> "PENDING"
    [] ts = "expire" \/ ts = "cancel" -> "EXPIRED"
    [] ts = "deny" \/ ts = "failure" -> "FAILED"
    [] OTHER -> Null

\* C15: mapMidtransStatusToInvoice is the closed table, every other vendor
\* status maps to none, and the switch of handleMidtransCallback gives the
\* same status (its throw for none) on every vendor status.
C15_MappingTable ==
  /\ \A k \in Callers :
       call[k].op \in {"mapMidtransStatusToInvoice", "handleMidtransCallback"} =>
         call[k].result = StatusTable(call[k].args[1])
  /\ \A j, k \in Callers :
       /\ call[j].op = "mapMidtransStatusToInvoice"
       /\ call[k].op = "handleMidtransCallback"
       /\ call[j].args = call[k].args
       => call[j].result = call[k].result

\* the two mappings were applied to the same vendor status of the table
C15_Witness ==
  /\ call[1].op = "mapMidtransStatusToInvoice"
  /\ call[2].op = "handleMidtransCallback"
  /\ call[1].args = <<"cancel">>
  /\ call[2].args = <<"cancel">>
  /\ call[1].result = "EXPIRED"

(***************************************************************************)
(* Properties of create and soft delete                                    *)
(***************************************************************************)
\* caller k starts a create call in this step
StartsCreate(k) ==
  /\ call[k].pc \in {"idle", "done"}
  /\ call'[k].op = "create"
  /\ call'[k].pc \in {"insert", "done"}
  /\ call'[k] # call[k]

\* C16: in every state, concurrent create calls with the same orderId
\* included, at most one live invoice has a given orderId; a create call made
\* for an orderId that a live row holds fails with INVOICE_ALREADY_EXISTS; a
\* create call that fails adds no row and changes none; a create that succeeds
\* appends one row with status PENDING and paymentAttemptCount 0.  (The call
\* that loses a race of two creates found no live row when it looked: it
\* fails on the unique index and adds no row either.)
C16_UniqueOrderId ==
  [][/\ \A i, j \in Live(invoices') :
          invoices'[i].orderId = invoices'[j].orderId => i = j
     /\ \A k \in Callers :
          /\ StartsCreate(k) /\ findByOrderId(invoices, call'[k].orderId) # 0 =>
               /\ call'[k].pc = "done"
               /\ call'[k].result = "INVOICE_ALREADY_EXISTS"
          /\ call'[k] # call[k] /\ call'[k].pc = "done" /\ call'[k].result # "CREATED" =>
               invoices' = invoices
          /\ call'[k] # call[k] /\ call'[k].result = "CREATED" =>
               /\ Len(invoices') = Len(invoices) + 1
               /\ \A i \in Ids(invoices) : invoices'[i] = invoices[i]
               /\ invoices'[Len(invoices')].orderId = call'[k].orderId
               /\ invoices'[Len(invoices')].status = "PENDING"
               /\ invoices'[Len(invoices')].paymentAttemptCount = 0
               /\ invoices'[Len(invoices')].deletedAt = None]_vars

\* two create calls for the same orderId ran at the same time: one created
\* the row, the other failed, one live row holds the orderId
C16_Witness ==
  /\ call[1].pc = "done" /\ call[2].pc = "done"
  /\ call[1].orderId = call[2].orderId
  /\ call[1].result = "CREATED"
  /\ call[2].result = "UNIQUE_CONSTRAINT"
  /\ Cardinality({i \in Live(invoices) : invoices[i].orderId = call[1].orderId}) = 1

\* C17: once softDelete(id) has committed, no later operation changes any
\* field of the deleted row.
C17_DeletedFrozen ==
  [][\A i \in Ids(invoices) :
       invoices[i].deletedAt # None => invoices'[i] = invoices[i]]_vars

(***************************************************************************)
(* Answers of the webhook handlers                                         *)
(***************************************************************************)
\* C18: whenever the conditional update returns NOOP, the webhook handler
\* answers with a success response, never with an error.
C18_NoopIsSuccess ==
  [][\A h \in Handlers :
       /\ hook[h].pc \in {"cas", "oldcas"}
       /\ casResult(invoices, Val(hook[h].n).order_id) = "NOOP"
       => hook'[h].pc = hook[h].pc \/ hook'[h].resp \in NoopResps]_vars

(***************************************************************************)
(* Failure compensation of generatePaymentLink                             *)
(***************************************************************************)
\* generation g leaves Phase 2 or Phase 3a with a failure in this step
FailsAfterPhase1(g) ==
  /\ gen[g].pc \in {"gateway", "p3a"}
  /\ gen'[g].pc # gen[g].pc
  /\ gen'[g].error # Null

\* generation g runs Phase 3b in this step
RunsP3b(g) == gen[g].pc = "p3b" /\ gen'[g].pc # "p3b"

\* C19 as stated: whenever Phase 2 fails or Phase 3a throws, Phase 3b runs
\* before the call returns; it sets paymentLinkCreatedAt to null, leaves
\* paymentAttemptCount as it is, and the caller receives the original error.
C19_AlwaysCleared ==
  [][\A g \in Gens :
       /\ FailsAfterPhase1(g) => gen'[g].pc = "p3b"
       /\ RunsP3b(g) =>
            /\ invoices'[gen[g].id].paymentLinkCreatedAt = None
            /\ invoices'[gen[g].id].paymentAttemptCount =
                 invoices[gen[g].id].paymentAttemptCount
            /\ gen'[g].pc = "done"
            /\ gen'[g].result = "ERROR"
            /\ gen'[g].error = gen[g].error]_vars

\* C19 amended: the same, with the timestamp set to null when the invoice is
\* still live; for an invoice soft-deleted since Phase 1 the re-fetch of
\* Phase 3b finds nothing and the row keeps every field.
C19_Compensation ==
  [][\A g \in Gens :
       /\ FailsAfterPhase1(g) => gen'[g].pc = "p3b"
       /\ RunsP3b(g) =>
            /\ findById(invoices, gen[g].id) # 0 =>
                 /\ invoices'[gen[g].id].paymentLinkCreatedAt = None
                 /\ invoices' = [invoices EXCEPT ![gen[g].id].paymentLinkCreatedAt = None]
            /\ findById(invoices, gen[g].id) = 0 => invoices' = invoices
            /\ invoices'[gen[g].id].paymentAttemptCount =
                 invoices[gen[g].id].paymentAttemptCount
            /\ gen'[g].pc = "done"
            /\ gen'[g].result = "ERROR"
            /\ gen'[g].error = gen[g].error]_vars

\* a generation whose gateway call failed has returned the gateway error; the
\* invoice is live, its timestamp is null and its counter is incremented
C19_Witness ==
  \E g \in Gens :
    /\ gen[g].pc = "done"
    /\ gen[g].error = "Midtrans API error"
    /\ findById(invoices, gen[g].id) # 0
    /\ invoices[gen[g].id].paymentLinkCreatedAt = None
    /\ invoices[gen[g].id].paymentAttemptCount >= 1

(***************************************************************************)
(* The legacy service and the service over the repository                  *)
(***************************************************************************)
\* C20: handleMidtransCallback(orderId, transactionStatus, rawResponse) of
\* the InvoiceService over the repository returns or throws what the legacy
\* service does and leaves the same table, for every argument: both find the
\* invoice whose orderId is the first argument.
C20_SameCallback ==
  \A o \in CallbackOrderIds, ts \in CallbackStatuses :
    /\ callbackResult(refactoredFound(invoices, o), o, ts) =
         callbackResult(legacyFound(invoices, o), o, ts)
    /\ callbackStore(invoices, refactoredFound(invoices, o), o, ts, BaseNotification, now) =
         callbackStore(invoices, legacyFound(invoices, o), o, ts, BaseNotification, now)

(***************************************************************************)
(* Concurrent link generation                                              *)
(***************************************************************************)
\* generation g commits Phase 1 in this step
CommitsPhase1(g) == gen[g].pc = "p1write" /\ gen'[g].pc = "gateway"

\* C21: Phase 1 is serialized per invoice: every Phase 1 that commits raises
\* the persisted paymentAttemptCount of its invoice by exactly one, also when
\* two generatePaymentLink calls for the invoice run together.
C21_Phase1Serialized ==
  [][\A g \in Gens :
       CommitsPhase1(g) =>
         invoices'[gen[g].id].paymentAttemptCount =
           invoices[gen[g].id].paymentAttemptCount + 1]_vars

\* the request identifiers of the gateway calls made for invoice i, in order
RequestIds(i) ==
  [j \in DOMAIN gatewayCalls[i] |-> midtransOrderId(invoices[i].orderId, gatewayCalls[i][j])]

\* C22: any two gateway create-link calls made for the same invoice carry
\* different request identifiers, also when the calls overlap in time.
C22_DistinctReference ==
  \A i \in Ids(invoices) :
    \A j, k \in DOMAIN RequestIds(i) :
      j # k => RequestIds(i)[j] # RequestIds(i)[k]

\* C23: every generatePaymentLink call that has committed Phase 1 eventually
\* runs Phase 3a or Phase 3b and returns, also when the gateway never answers.
C23_NoStaleMarker ==
  \A g \in Gens : (gen[g].pc = "gateway") ~> (gen[g].pc = "done")

\* generation g runs the read and the checks of Phase 1 in this step
ChecksPhase1(g) == gen[g].pc = "p1read" /\ gen'[g].pc # "p1read"

\* C24: when generatePaymentLink fails a Phase-1 check (invoice not found,
\* PAID, EXPIRED, paymentAttemptCount >= 3, link younger than 30 minutes), the
\* call ends in that step with that error: no field of any invoice changes, no
\* gateway call is made, Phase 3b does not run.
C24_EligibilityNoEffect ==
  [][\A g \in Gens :
       ChecksPhase1(g) /\ Phase1Error(invoices, gen[g].id, now) # Null =>
         /\ invoices' = invoices
         /\ gatewayCalls' = gatewayCalls
         /\ gen'[g].pc = "done"
         /\ gen'[g].result = "ERROR"
         /\ gen'[g].error = Phase1Error(invoices, gen[g].id, now)
         /\ gen'[g].error \in {"Invoice Not Found", "INVOICE_ALREADY_PAID", "INVOICE_EXPIRED",
                               "MAX_PAYMENT_ATTEMPTS_REACHED",
                               "ACTIVE_PAYMENT_LINK_EXISTS"}]_vars

\* a call was refused because of an active link: the link and its timestamp
\* are still there
C24_Witness ==
  \E g \in Gens :
    /\ gen[g].pc = "done"
    /\ gen[g].error = "ACTIVE_PAYMENT_LINK_EXISTS"
    /\ gen[g].id \in Live(invoices)
    /\ LinkFresh(invoices[gen[g].id], now)
    /\ Len(gatewayCalls[gen[g].id]) = 1

(***************************************************************************)
(* Errors and side effects of the webhook handler                          *)
(***************************************************************************)
\* handler h takes a step
Steps(h) == hook'[h] # hook[h]

\* C25: a delivery that ends in a validation, authentication, not-found,
\* business-rule or unknown-status error leaves every invoice row unchanged
\* and does not add its key to processedNotifications: the step that answers
\* with the error changes neither, and the steps of the handler before it
\* (receipt, lookup) change neither.
C25_ErrorsMutateNothing ==
  [][\A h \in Handlers :
       /\ Steps(h) /\ hook'[h].pc = "done" /\ hook'[h].resp \in ErrorResps =>
            /\ invoices' = invoices
            /\ processedNotifications' = processedNotifications
            /\ hook[h].pc \in {"idle", "lookup"}
       /\ Steps(h) /\ hook[h].pc \in {"idle", "lookup"} =>
            /\ invoices' = invoices
            /\ processedNotifications' = processedNotifications]_vars

\* the two deliveries ended with errors of different kinds, the invoice is
\* as it was created and no key is recorded
C25_Witness ==
  /\ hook[1].pc = "done" /\ hook[1].resp = "UNAUTHORIZED_401"
  /\ hook[2].pc = "done" /\ hook[2].resp = "UNKNOWN_STATUS_500"
  /\ processedNotifications = {}
  /\ invoices = <<NewInvoice("A", 100)>>

\* C26: a notification without order_id, transaction_id, transaction_status
\* or gross_amount is answered 400, and in production a notification whose
\* signature does not match is answered 401, in the step of receipt: whatever
\* processedNotifications holds, without a read or write of the invoices and
\* without a change of processedNotifications; outside production the
\* signature never causes a rejection.
C26_ValidationFirst ==
  [][\A h \in Handlers :
       Steps(h) /\ hook[h].pc = "idle" =>
         LET n == Val(hook'[h].n)
         IN /\ validateWebhookRequest(n) # Null =>
                 hook'[h].pc = "done" /\ hook'[h].resp = "VALIDATION_400"
            /\ validateWebhookRequest(n) = Null /\ isProduction /\ n.signature # "valid" =>
                 hook'[h].pc = "done" /\ hook'[h].resp = "UNAUTHORIZED_401"
            /\ ~isProduction => hook'[h].resp # "UNAUTHORIZED_401"
            /\ hook'[h].resp \in {"VALIDATION_400", "UNAUTHORIZED_401"} =>
                 hook'[h].snap = Null
            /\ invoices' = invoices
            /\ processedNotifications' = processedNotifications]_vars

\* in production a notification with a forged signature whose key is already
\* recorded was answered 401
C26_Witness ==
  \E h \in Handlers :
    /\ isProduction
    /\ hook[h].pc = "done"
    /\ hook[h].resp = "UNAUTHORIZED_401"
    /\ notificationId(Val(hook[h].n)) \in processedNotifications

\* the delivery of handler h gets its answer in this step
Answered(h, resps) ==
  hook[h].pc # "done" /\ hook'[h].pc = "done" /\ hook'[h].resp \in resps

\* C27: a key joins the processed set, and ATOMIC_SUCCESS is logged, only by
\* a delivery whose conditional update returned SUCCESS: the event is logged
\* in the very step whose update matched, a key is added only by a delivery
\* that logged the event and it is that delivery's own key, and a delivery
\* answered as duplicate, no-op or error has neither logged the event nor
\* added a key in any of its steps.
C27_SideEffectGating ==
  [][\A h \in Handlers :
       /\ (hook'[h].audit = "ATOMIC_SUCCESS" /\ hook[h].audit # "ATOMIC_SUCCESS")
            => /\ hook[h].pc = "cas"
               /\ casResult(invoices, Val(hook[h].n).order_id) = "SUCCESS"
       /\ (processedNotifications' \ processedNotifications # {})
            => \E k \in Handlers :
                 /\ hook[k].pc = "finish" /\ hook[k].audit = "ATOMIC_SUCCESS"
                 /\ hook'[k].resp = "SUCCESS_200"
                 /\ processedNotifications' \ processedNotifications
                      = {notificationId(Val(hook[k].n))}
       /\ Answered(h, NoopResps \cup ErrorResps)
            => /\ hook'[h].audit # "ATOMIC_SUCCESS"
               /\ hook[h].pc # "finish"
               /\ processedNotifications' = processedNotifications]_vars

\* one delivery changed the invoice, logged ATOMIC_SUCCESS and recorded its
\* key; an overlapping delivery with another vendor status, and so another
\* key, got NOOP from the conditional update and left no key
C27_Witness ==
  \E h, k \in Handlers :
    /\ hook[h].pc = "done" /\ hook[h].resp = "SUCCESS_200"
    /\ hook[h].audit = "ATOMIC_SUCCESS"
    /\ notificationId(Val(hook[h].n)) \in processedNotifications
    /\ hook[k].pc = "done" /\ hook[k].resp = "ATOMIC_NOOP_200"
    /\ hook[k].audit = "ATOMIC_NOOP"
    /\ notificationId(Val(hook[k].n)) \notin processedNotifications

\* the notification names a vendor status outside the mapping table
Unmapped(n) ==
  n.transaction_status # "" /\ mapMidtransStatusToInvoice(n.transaction_status) = Null

\* the notification carries exactly the amount of the live invoice of its order
ExactAmount(n) ==
  /\ findByOrderId(invoices, n.order_id) # 0
  /\ NumberOf(n.gross_amount) = invoices[findByOrderId(invoices, n.order_id)].amount

\* the live invoice of the order is PENDING in the given store
PendingIn(store, orderId) ==
  /\ findByOrderId(store, orderId) # 0
  /\ store[findByOrderId(store, orderId)].status = "PENDING"

\* C28: a genuine notification with the exact amount for a live PENDING
\* invoice whose vendor status is outside the mapping table is answered with an error
\* response, never with a success or a no-op response, and the invoice is
\* PENDING afterwards.
C28_UnknownStatusIsError ==
  [][\A h \in Handlers :
       (/\ hook[h].pc # "done" /\ hook'[h].pc = "done"
        /\ Unmapped(Val(hook'[h].n))
        /\ Val(hook'[h].n).signature = "valid"
        /\ ExactAmount(Val(hook'[h].n))
        /\ LivePending(Val(hook'[h].n).order_id))
       => /\ hook'[h].resp \in ErrorResps
          /\ PendingIn(invoices', Val(hook'[h].n).order_id)]_vars

\* a well-formed notification of a vendor status of the table, with exactly
\* the amount of the live invoice of its order, and that invoice is FAILED
ForFailed(n) ==
  /\ validateWebhookRequest(n) = Null
  /\ n.transaction_status \in VendorStatuses
  /\ ExactAmount(n)
  /\ invoices[findByOrderId(invoices, n.order_id)].status = "FAILED"

\* C29: a notification with the exact amount for a FAILED invoice is not an
\* error and changes nothing: when the route looks the invoice up, the
\* business rules pass, the transition check stops the delivery and the
\* answer is the no-effect success of the transition check; whatever stage
\* (short-circuit, lookup or conditional update) answers a delivery that finds
\* the invoice FAILED, the answer is a success without effect, and no
\* step of a delivery changes a FAILED invoice, for every vendor status.
C29_FailedAbsorbs ==
  [][\A h \in Handlers :
       /\ (hook[h].pc = "lookup" /\ hook'[h] # hook[h] /\ ForFailed(Val(hook[h].n)))
            => /\ validatePaymentRules(invoices[findByOrderId(invoices, Val(hook[h].n).order_id)],
                                       Val(hook[h].n)) = Null
               /\ hook'[h].pc = "done"
               /\ hook'[h].resp = "TRANSITION_NOT_ALLOWED_200"
       /\ (/\ hook[h].pc \in {"idle", "lookup", "cas"} /\ hook'[h].pc = "done"
           /\ ForFailed(Val(hook'[h].n)))
            => /\ hook'[h].resp \in NoopResps
               /\ invoices' = invoices
       /\ (hook'[h] # hook[h])
            => \A i \in Ids(invoices) :
                 invoices[i].status = "FAILED" => invoices'[i] = invoices[i]]_vars

\* a settlement with the exact amount met a FAILED invoice and was answered
\* by the transition check; the invoice is still FAILED
C29_Witness ==
  \E h \in Handlers :
    /\ hook[h].pc = "done" /\ hook[h].resp = "TRANSITION_NOT_ALLOWED_200"
    /\ hook[h].snap = "FAILED"
    /\ Val(hook[h].n).transaction_status = "settlement"
    /\ ForFailed(Val(hook[h].n))

\* C30: a vendor 'pending' notification is never a state change: no step of
\* its delivery executes the conditional update, changes a field of an
\* invoice or records a key, no key of a 'pending' notification is ever in
\* the processed set, and when the delivery, having passed validation and
\* the business rules, finds its invoice PENDING, it is answered at the
\* lookup stage with the success response 'Status already set'.
C30_PendingIsNoop ==
  [][\A h \in Handlers :
       (/\ hook'[h] # hook[h] /\ hook'[h].n # None
        /\ Val(hook'[h].n).transaction_status = "pending")
       => /\ invoices' = invoices
          /\ processedNotifications' = processedNotifications
          /\ \A key \in processedNotifications : key[3] # "pending"
          /\ hook'[h].pc \notin {"cas", "finish"}
          /\ (/\ hook[h].pc = "lookup"
              /\ PendingIn(invoices, Val(hook'[h].n).order_id)
              /\ ExactAmount(Val(hook'[h].n)))
             => /\ hook'[h].pc = "done"
                /\ hook'[h].resp = "STATUS_ALREADY_SET_200"
                /\ hook'[h].resp \in NoopResps]_vars

\* a 'pending' notification was answered 'Status already set'; the invoice is
\* PENDING as created, with no gateway response stored, and the key of the
\* notification is not in the processed set
C30_Witness ==
  \E h \in Handlers :
    /\ hook[h].pc = "done" /\ hook[h].resp = "STATUS_ALREADY_SET_200"
    /\ Val(hook[h].n).transaction_status = "pending"
    /\ PendingIn(invoices, Val(hook[h].n).order_id)
    /\ invoices[findByOrderId(invoices, Val(hook[h].n).order_id)].gatewayResponse = None
    /\ notificationId(Val(hook[h].n)) \notin processedNotifications

\* generatePaymentLink call g returns successfully in this step
ReturnsOk(g) ==
  gen[g].pc = "p3a" /\ gen'[g].pc = "done" /\ gen'[g].result = "OK"

\* C31: when generatePaymentLink returns successfully, the persisted invoice
\* carries the URL the gateway returned to this call and, as its creation
\* time, the timestamp this call stamped in Phase 1, also when other calls
\* for the same invoice overlap.
C31_Phase3aResult ==
  [][\A g \in Gens :
       ReturnsOk(g)
       => /\ invoices'[gen[g].id].paymentLink = gen[g].url
          /\ invoices'[gen[g].id].paymentLinkCreatedAt = gen[g].stamp]_vars

\* a step of a webhook delivery, and a step of a generatePaymentLink call
HookStep == \E h \in Handlers : hook'[h] # hook[h]
GenStep == \E g \in Gens : gen'[g] # gen[g]

\* C32: the two writers of an invoice touch disjoint fields: no step of a
\* webhook delivery changes amount, orderId, paymentAttemptCount, paymentLink,
\* paymentLinkCreatedAt or deletedAt of any invoice, and no step of
\* generatePaymentLink changes status, paidAt, amount, orderId, paymentType
\* or gatewayResponse of any invoice, in every interleaving of the two.
C32_WritersSeparated ==
  [][/\ Len(invoices') >= Len(invoices)
     /\ HookStep =>
          \A i \in Ids(invoices) :
            /\ invoices'[i].amount = invoices[i].amount
            /\ invoices'[i].orderId = invoices[i].orderId
            /\ invoices'[i].paymentAttemptCount = invoices[i].paymentAttemptCount
            /\ invoices'[i].paymentLink = invoices[i].paymentLink
            /\ invoices'[i].paymentLinkCreatedAt = invoices[i].paymentLinkCreatedAt
            /\ invoices'[i].deletedAt = invoices[i].deletedAt
     /\ GenStep =>
          \A i \in Ids(invoices) :
            /\ invoices'[i].status = invoices[i].status
            /\ invoices'[i].paidAt = invoices[i].paidAt
            /\ invoices'[i].amount = invoices[i].amount
            /\ invoices'[i].orderId = invoices[i].orderId
            /\ invoices'[i].paymentType = invoices[i].paymentType
            /\ invoices'[i].gatewayResponse = invoices[i].gatewayResponse]_vars

\* a notification was applied to an invoice while a generatePaymentLink call
\* for it was between Phase 1 and Phase 3: the invoice is PAID with the
\* payload stored, and carries the counter and the timestamp of the call
C32_Witness ==
  \E i \in Ids(invoices) :
    /\ invoices[i].status = "PAID"
    /\ invoices[i].gatewayResponse # None
    /\ invoices[i].paymentAttemptCount = 1
    /\ invoices[i].paymentLinkCreatedAt # None
    /\ gen[1].pc \in {"gateway", "p3a"} /\ gen[1].id = i
    /\ \E h \in Handlers : hook[h].pc = "done" /\ hook[h].resp = "SUCCESS_200"

\* the deliveries whose conditional update returned SUCCESS for the order
Won(orderId) ==
  {h \in Handlers : /\ hook[h].n # None /\ Val(hook[h].n).order_id = orderId
                    /\ hook[h].audit = "ATOMIC_SUCCESS"}

\* the deliveries answered SUCCESS for the order
AnsweredOk(orderId) ==
  {h \in Handlers : /\ hook[h].n # None /\ Val(hook[h].n).order_id = orderId
                    /\ hook[h].pc = "done" /\ hook[h].resp = "SUCCESS_200"}

Payment(n) ==
  /\ validateWebhookRequest(n) = Null
  /\ n.transaction_status \in {"settlement", "capture"}
  /\ RowOf(n.order_id) # {}
  /\ \A i \in RowOf(n.order_id) : NumberOf(n.gross_amount) = invoices[i].amount

\* C34: no lost payment. A settlement or capture notification with the exact
\* amount is never answered with a success or a no-op response while the live
\* invoice with its orderId is still PENDING, and when it was received while
\* that invoice was PENDING, then once the handler has answered, the invoice,
\* if it is still live, is no longer PENDING: this delivery or a concurrent
\* one won the conditional update.
C34_NoLostPayment ==
  [][\A h \in Handlers :
       (/\ hook[h].pc # "done" /\ hook'[h].pc = "done"
        /\ ~hook'[h].direct
        /\ Payment(Val(hook'[h].n)))
       => /\ hook'[h].resp \in SuccessResps \cup NoopResps
               => ~PendingIn(invoices', Val(hook'[h].n).order_id)
          /\ hook'[h].sawPending
               => ~PendingIn(invoices', Val(hook'[h].n).order_id)]_vars

\* a settlement received while the invoice was PENDING was answered with the
\* no-op of the conditional update, because a concurrent capture had won: the
\* invoice is PAID
C34_Witness ==
  \E h, k \in Handlers, i \in Ids(invoices) :
    /\ hook[h].pc = "done" /\ hook[h].resp = "ATOMIC_NOOP_200" /\ hook[h].sawPending
    /\ Payment(Val(hook[h].n))
    /\ hook[k].pc = "done" /\ hook[k].resp = "SUCCESS_200" /\ hook[k].sawPending
    /\ Val(hook[k].n).order_id = Val(hook[h].n).order_id
    /\ invoices[i].orderId = Val(hook[h].n).order_id
    /\ invoices[i].deletedAt = None
    /\ invoices[i].status = "PAID"

\* call g is between its Phase 1 and its Phase 3 and the creation time of the
\* invoice is the one it stamped
Regenerating(g, i) ==
  /\ gen[g].pc \in {"gateway", "p3a", "p3b"}
  /\ gen[g].id = i
  /\ invoices[i].paymentLinkCreatedAt = gen[g].stamp

\* C35: the active link is the link of the stamping attempt: while the
\* attempt that stamped paymentLinkCreatedAt has not stored its URL yet, the
\* invoice does not count as having an active link, so an older URL is never
\* presented as active between Phase 1 and Phase 3 of a regeneration.
C35_ActiveLinkOfStamper ==
  \A i \in Ids(invoices), g \in Gens :
    Regenerating(g, i) => ~ActiveLink(invoices[i], now)

\* call g has returned successfully and the invoice carries its link with a
\* creation time
LinkInPlace(g, i) ==
  /\ gen[g].pc = "done" /\ gen[g].result = "OK" /\ gen[g].id = i
  /\ i \in Ids(invoices)
  /\ invoices[i].paymentLink = gen[g].url
  /\ invoices[i].paymentLinkCreatedAt # None

\* a Phase 1 for invoice i commits in this step
Phase1Commits(i) ==
  \E k \in Gens : gen[k].pc = "p1write" /\ gen[k].id = i /\ gen'[k].pc = "gateway"

\* C36: after a generatePaymentLink call has returned successfully, the
\* invoice keeps its link and a non-null creation time until a later Phase 1
\* for the invoice commits: neither the Phase 3b nor the Phase 3a of another
\* call changes them.
C36_LinkSurvives ==
  [][\A g \in Gens, i \in Ids(invoices) :
       (LinkInPlace(g, i) /\ gen'[g] = gen[g] /\ ~Phase1Commits(i))
       => /\ invoices'[i].paymentLink = gen[g].url
          /\ invoices'[i].paymentLinkCreatedAt # None]_vars

\* C37: no link for a settled invoice: the Phase 3a write of
\* generatePaymentLink never stores a new paymentLink on an invoice whose
\* status is PAID or EXPIRED at the moment of the write, also when a
\* notification settled the invoice while the gateway call was in flight.
C37_NoLinkWhenSettled ==
  [][\A g \in Gens :
       (/\ gen[g].pc = "p3a"
        /\ gen[g].id \in Ids(invoices)
        /\ invoices'[gen[g].id].paymentLink # invoices[gen[g].id].paymentLink)
       => invoices[gen[g].id].status \notin {"PAID", "EXPIRED"}]_vars

\* C38: links are generated only for payable invoices: whenever the checks of
\* Phase 1 pass, the invoice is one the conditional update of a settlement
\* would still match (live and PENDING); Phase 1 does not pass for a FAILED
\* invoice.
C38_OnlyPayable ==
  [][\A g \in Gens :
       (gen[g].pc = "p1read" /\ gen'[g].pc = "p1write")
       => gen[g].id \in CasMatch(invoices, invoices[gen[g].id].orderId)]_vars

\* C39: gateway reference round trip: when the webhook handler looks up a
\* notification whose order_id is a request identifier that Phase 2 sent to
\* the gateway for a live invoice, the lookup finds that invoice and the
\* delivery is not answered 'not found'.
C39_ReferenceRoundTrip ==
  [][\A h \in Handlers, i \in Live(invoices) :
       (/\ hook[h].pc = "lookup" /\ hook'[h] # hook[h]
        /\ Val(hook[h].n).order_id \in SentReferences(i))
       => /\ findByOrderId(invoices, Val(hook[h].n).order_id) = i
          /\ hook'[h].resp # "NOT_FOUND_404"]_vars

\* the requests of POST /v1/payment-links that hold the key of the order
Holders(orderId) ==
  {g \in Gens : /\ gen[g].route = "v1" /\ gen[g].orderId = orderId
                /\ gen[g].pc \notin {"idle", "done"}}

\* C40: the in-process lock of POST /v1/payment-links: at most one request
\* per order_id is between acquiring and releasing the key, the key is held
\* exactly while such a request is running (so it is released on every exit
\* path and no order_id stays locked), and a request that finds the key held
\* is answered 429 without changing an invoice, starting a
\* generatePaymentLink call or touching the key.
C40_GenerationLock ==
  [][/\ \A o \in OrderIds :
          /\ \A g, k \in Holders(o) : g = k
          /\ (o \in processingPaymentLinks) <=> (Holders(o) # {})
     /\ \A g \in Gens :
          (gen'[g] # gen[g] /\ gen'[g].route = "busy")
          => /\ gen'[g].orderId \in processingPaymentLinks
             /\ gen'[g].result = "IN_PROGRESS_429"
             /\ invoices' = invoices
             /\ callsMade' = callsMade
             /\ processingPaymentLinks' = processingPaymentLinks]_vars

\* a request was answered 429 while another request for the same order_id
\* holds the key and waits for the gateway
C40_Witness ==
  \E g, k \in Gens :
    /\ gen[g].route = "v1" /\ gen[g].pc = "gateway"
    /\ gen[k].route = "busy" /\ gen[k].pc = "done" /\ gen[k].result = "IN_PROGRESS_429"
    /\ gen[k].orderId = gen[g].orderId
    /\ gen[g].orderId \in processingPaymentLinks
=============================================================================
